---- MODULE Spec2Model ----
(***************************************************************************)
(* TrapScript pattern engine (src/trapscript.py): rational time, events,   *)
(* the pattern combinators, the mini-notation parser and the cycle-latched *)
(* tick scheduler, as a state machine.                                     *)
(***************************************************************************)
EXTENDS Integers, Sequences, FiniteSets, TLC

(***************************************************************************)
(* Optional values: None is the empty tuple, Some(x) the one-tuple.        *)
(***************************************************************************)
None == <<>>
Some(x) == <<x>>
IsNone(o) == Len(o) = 0
Get(o) == o[1]

Abs(x) == IF x < 0 THEN -x ELSE x

RECURSIVE Gcd(_, _)
Gcd(a, b) == IF b = 0 THEN a ELSE Gcd(b, a % b)

(***************************************************************************)
(* class Fraction.  A Fraction is <<n, d>> with d > 0.  __init__ reduces   *)
(* by the gcd only when n # 0: a zero keeps the denominator it was built   *)
(* with (0/16 stays 0/16).  A zero denominator raises ZeroDivisionError:   *)
(* ZeroDiv stands for that outcome.                                        *)
(***************************************************************************)
ZeroDiv == <<0, 0>>

Frac(n, d) ==
    IF d = 0 THEN ZeroDiv
    ELSE LET n1 == IF d < 0 THEN -n ELSE n
             d1 == Abs(d)
             g  == IF n1 # 0 THEN Gcd(Abs(n1), d1) ELSE 1
         IN  <<n1 \div g, d1 \div g>>

FracInt(i) == Frac(i, 1)

FEq(a, b) == a[1] * b[2] = b[1] * a[2]
FLt(a, b) == a[1] * b[2] < b[1] * a[2]
FGt(a, b) == a[1] * b[2] > b[1] * a[2]
FLe(a, b) == FEq(a, b) \/ FLt(a, b)
FGe(a, b) == FEq(a, b) \/ FGt(a, b)

FAdd(a, b) == Frac(a[1] * b[2] + b[1] * a[2], a[2] * b[2])
FSub(a, b) == Frac(a[1] * b[2] - b[1] * a[2], a[2] * b[2])
FMul(a, b) == Frac(a[1] * b[1], a[2] * b[2])
FDiv(a, b) == Frac(a[1] * b[2], a[2] * b[1])

\* __int__: floor division of numerator by denominator
FInt(a) == a[1] \div a[2]

\* `x == int(x)` on a Fraction: true exactly of the whole numbers
FIsWhole(a) == a[1] % a[2] = 0

\* builtin max / min of two Fractions: the first argument wins a tie
FMax(a, b) == IF FGt(b, a) THEN b ELSE a
FMin(a, b) == IF FLt(b, a) THEN b ELSE a

(***************************************************************************)
(* Fraction(x) for a float x that is not a whole number: the float is      *)
(* given exactly as n/d and converted as int(x * 1000000) / 1000000        *)
(* (truncation toward zero), then reduced by _reduce.                      *)
(***************************************************************************)
FloatPrecision == 1000000

Trunc(n, d) == IF n >= 0 THEN n \div d ELSE -((-n) \div d)

FracFromFloat(x) ==
    IF x[1] % x[2] = 0 THEN Frac(x[1] \div x[2], 1)
    ELSE Frac(Trunc(x[1] * FloatPrecision, x[2]), FloatPrecision)

(***************************************************************************)
(* Event (Hap): value, whole (Optional Arc), part (Arc).                   *)
(* A value is <<tag, n, d>>: "int" n, "float" n/d, "abs" (AbsoluteNote     *)
(* with midi n) or "rest" (None).                                          *)
(***************************************************************************)
IntVal(n) == <<"int", n, 1>>
FloatVal(n, d) == <<"float", n, d>>
AbsVal(m) == <<"abs", m, 1>>
RestVal == <<"rest", 0, 1>>

Arc(s, e) == <<s, e>>
Event(v, w, p) == [value |-> v, whole |-> w, part |-> p]

has_onset(e) == ~IsNone(e.whole) /\ FEq(Get(e.whole)[1], e.part[1])

\* Event.__eq__ (dataclass): field by field, Fractions by cross-multiplication
ArcEq(a, b) == FEq(a[1], b[1]) /\ FEq(a[2], b[2])
EventEq(e1, e2) ==
    /\ e1.value = e2.value
    /\ IsNone(e1.whole) = IsNone(e2.whole)
    /\ (~IsNone(e1.whole) => ArcEq(Get(e1.whole), Get(e2.whole)))
    /\ ArcEq(e1.part, e2.part)

RECURSIVE Flatten(_)
Flatten(ss) == IF Len(ss) = 0 THEN <<>> ELSE Head(ss) \o Flatten(Tail(ss))

\* range(int(arc[0]), int(arc[1]) if arc[1] is whole else int(arc[1]) + 1)
CycleStart(arc) == FInt(arc[1])
CycleEnd(arc) == IF FIsWhole(arc[2]) THEN FInt(arc[2]) ELSE FInt(arc[2]) + 1

(***************************************************************************)
(* Patterns.  A Pattern's query function is a closure; here it is the tree *)
(* of the combinators that built it: [op, v, f, n, kids, ws].              *)
(***************************************************************************)
Node(op, v, f, n, kids, ws) ==
    [op |-> op, v |-> v, f |-> f, n |-> n, kids |-> kids, ws |-> ws]

silence == Node("silence", RestVal, <<1, 1>>, 0, <<>>, <<>>)
pure(v) == Node("pure", v, <<1, 1>>, 0, <<>>, <<>>)
\* a pattern expression whose evaluation raised ZeroDivisionError
raisedPattern == Node("raise", RestVal, <<1, 1>>, 0, <<>>, <<>>)
IsRaised(p) == p.op = "raise"

(***************************************************************************)
(* Fraction(x) of one argument, as Pattern.fast and Pattern.slow call it.  *)
(* A number is <<"int", n, 1>>, <<"float", n, d>> (the float n/d) or       *)
(* <<"frac", n, d>> (a Fraction object, copied as it is).                  *)
(***************************************************************************)
NumInt(n) == <<"int", n, 1>>
NumFloat(n, d) == <<"float", n, d>>
NumFrac(q) == <<"frac", q[1], q[2]>>

ToFraction(x) ==
    IF x[1] = "frac" THEN <<x[2], x[3]>>
    ELSE IF x[1] = "float" THEN FracFromFloat(<<x[2], x[3]>>)
    ELSE Frac(x[2], 1)

\* Pattern.fast: Fraction(factor); factor == 0 gives silence
fast(p, x) ==
    LET factor == ToFraction(x)
    IN  IF IsRaised(p) \/ factor = ZeroDiv THEN raisedPattern
        ELSE IF factor[1] = 0 THEN silence
        ELSE Node("fast", RestVal, factor, 0, <<p>>, <<>>)

\* Pattern.slow: self.fast(Fraction(1) / Fraction(factor)); the division
\* raises ZeroDivisionError when Fraction(factor) is zero
slow(p, x) ==
    IF IsRaised(p) THEN raisedPattern
    ELSE fast(p, NumFrac(FDiv(Frac(1, 1), ToFraction(x))))

\* Pattern.repeatCycles: n = int(n); n <= 0 silence; n == 1 self
repeatCycles(p, n) ==
    IF IsRaised(p) THEN raisedPattern
    ELSE IF n <= 0 THEN silence
    ELSE IF n = 1 THEN p
    ELSE Node("repeat", RestVal, <<1, 1>>, n, <<p>>, <<>>)

AnyRaised(ps) == \E i \in 1..Len(ps) : IsRaised(ps[i])

\* _sequence(*patterns)
sequenceAsSlowcat(ps) ==
    IF AnyRaised(ps) THEN raisedPattern
    ELSE IF Len(ps) = 0 THEN silence
    ELSE IF Len(ps) = 1 THEN ps[1]
    ELSE Node("slowcat", RestVal, <<1, 1>>, Len(ps), ps, <<>>)

sequence(ps) ==
    IF AnyRaised(ps) THEN raisedPattern
    ELSE IF Len(ps) = 0 THEN silence
    ELSE IF Len(ps) = 1 THEN ps[1]
    ELSE Node("seq", RestVal, <<1, 1>>, Len(ps), ps, <<>>)

\* _slowcat(*patterns)
slowcat(ps) ==
    IF AnyRaised(ps) THEN raisedPattern
    ELSE IF Len(ps) = 0 THEN silence
    ELSE IF Len(ps) = 1 THEN ps[1]
    ELSE Node("slowcat", RestVal, <<1, 1>>, Len(ps), ps, <<>>)

\* _stack(*patterns)
stack(ps) ==
    IF AnyRaised(ps) THEN raisedPattern
    ELSE IF Len(ps) = 0 THEN silence
    ELSE IF Len(ps) = 1 THEN ps[1]
    ELSE Node("stack", RestVal, <<1, 1>>, Len(ps), ps, <<>>)

RECURSIVE SumSeq(_)
SumSeq(ws) == IF Len(ws) = 0 THEN 0 ELSE Head(ws) + SumSeq(Tail(ws))

\* _weighted_sequence(elements): elements are (pattern, weight) pairs
weighted_sequence(ps, ws) ==
    IF AnyRaised(ps) THEN raisedPattern
    ELSE IF Len(ps) = 0 THEN silence
    ELSE IF SumSeq(ws) = 0 THEN silence
    ELSE Node("wseq", RestVal, <<1, 1>>, Len(ps), ps, ws)

(***************************************************************************)
(* query(arc): the query closures of the combinators.                      *)
(***************************************************************************)
MapWhole(w, g(_)) == IF IsNone(w) THEN None ELSE Some(Arc(g(Get(w)[1]), g(Get(w)[2])))
MapEvent(e, g(_)) == Event(e.value, MapWhole(e.whole, g), Arc(g(e.part[1]), g(e.part[2])))
MapEvents(evs, g(_)) == [i \in 1..Len(evs) |-> MapEvent(evs[i], g)]

\* Pattern.pure.query without the clipping of part to the query arc
PureQueryUnclipped(v, arc) ==
    LET cs == CycleStart(arc)
        ce == CycleEnd(arc)
        ev(c) == LET whole == Arc(FracInt(c), FracInt(c + 1))
                 IN  Event(v, Some(whole), whole)
    IN  [k \in 1..(ce - cs) |-> ev(cs + k - 1)]

\* Pattern.pure.query
PureQuery(v, arc) ==
    LET cs == CycleStart(arc)
        ce == CycleEnd(arc)
        ev(c) == LET whole == Arc(FracInt(c), FracInt(c + 1))
                 IN  Event(v, Some(whole),
                           Arc(FMax(arc[1], whole[1]), FMin(arc[2], whole[2])))
        all == [k \in 1..(ce - cs) |-> ev(cs + k - 1)]
    IN  SelectSeq(all, LAMBDA e : FLt(e.part[1], e.part[2]))

RECURSIVE Query(_, _)

\* Pattern.fast.query
FastQuery(p, arc) ==
    LET factor == p.f
        inner_arc == Arc(FMul(arc[1], factor), FMul(arc[2], factor))
        back(t) == FDiv(t, factor)
    IN  MapEvents(Query(p.kids[1], inner_arc), back)

\* Pattern.repeatCycles.query
RepeatQuery(p, arc) ==
    LET cycle == FInt(arc[1])
        source_cycle == cycle \div p.n
        delta == FracInt(cycle - source_cycle * p.n)
        shifted_arc == Arc(FSub(arc[1], delta), FSub(arc[2], delta))
        fwd(t) == FAdd(t, delta)
    IN  MapEvents(Query(p.kids[1], shifted_arc), fwd)

\* one (child, cycle) slot of _sequence.query / _weighted_sequence.query:
\* child_start, child_end bound the child's share of a cycle; toLocal and
\* toParent are the two time mappings of that query
SlotQuery(pat, child_start, c, arc, query_start, query_end, toLocal(_), toParent(_)) ==
    IF FLt(query_start, query_end)
    THEN MapEvents(Query(pat, Arc(toLocal(query_start), toLocal(query_end))), toParent)
    ELSE <<>>

SeqSlot(pat, i, n, c, arc) ==
    LET child_start == Frac(i, n)
        child_end == Frac(i + 1, n)
        slot_start == FAdd(FracInt(c), child_start)
        slot_end == FAdd(FracInt(c), child_end)
        query_start == FMax(arc[1], slot_start)
        query_end == FMin(arc[2], slot_end)
        toLocal(t) == FAdd(FMul(FSub(t, slot_start), FracInt(n)), FracInt(c))
        toParent(t) == FAdd(slot_start, FDiv(FSub(t, FracInt(c)), FracInt(n)))
    IN  SlotQuery(pat, child_start, c, arc, query_start, query_end, toLocal, toParent)

\* the end of range(start_cycle, end_cycle) in _sequence.query
SeqCycleEndFirstOnly(arc) == CycleStart(arc) + 1

SeqCycleEnd(arc) == CycleEnd(arc)

\* _sequence.query: children outermost, touched cycles innermost
SeqQuery(p, arc) ==
    LET n == Len(p.kids)
        cs == CycleStart(arc)
        ce == SeqCycleEnd(arc)
        child(i) == Flatten([k \in 1..(ce - cs) |-> SeqSlot(p.kids[i + 1], i, n, cs + k - 1, arc)])
    IN  Flatten([j \in 1..n |-> child(j - 1)])

\* _slowcat.query
SlowcatQuery(p, arc) ==
    LET cycle_num == FInt(arc[1])
        pat_index == cycle_num % Len(p.kids)
    IN  Query(p.kids[pat_index + 1], arc)

\* _stack.query
StackQuery(p, arc) == Flatten([j \in 1..Len(p.kids) |-> Query(p.kids[j], arc)])

\* positions of _weighted_sequence: cumulative starts and ends
RECURSIVE WPos(_, _, _)
WPos(ws, total, cumulative) ==
    IF Len(ws) = 0 THEN <<>>
    ELSE LET end == FAdd(cumulative, Frac(Head(ws), total))
         IN  <<Arc(cumulative, end)>> \o WPos(Tail(ws), total, end)

WSlot(pat, child_start, child_end, c, arc) ==
    LET child_duration == FSub(child_end, child_start)
        slot_start == FAdd(FracInt(c), child_start)
        slot_end == FAdd(FracInt(c), child_end)
        query_start == FMax(arc[1], slot_start)
        query_end == FMin(arc[2], slot_end)
        scale == FDiv(Frac(1, 1), child_duration)
        toLocal(t) == FAdd(FMul(FSub(t, slot_start), scale), FracInt(c))
        toParent(t) == FAdd(slot_start, FMul(FSub(t, FracInt(c)), child_duration))
    IN  SlotQuery(pat, child_start, c, arc, query_start, query_end, toLocal, toParent)

\* _weighted_sequence.query
WSeqQuery(p, arc) ==
    LET positions == WPos(p.ws, SumSeq(p.ws), Frac(0, 1))
        cs == CycleStart(arc)
        ce == CycleEnd(arc)
        child(j) ==
            IF FEq(FSub(positions[j][2], positions[j][1]), Frac(0, 1)) THEN <<>>
            ELSE Flatten([k \in 1..(ce - cs) |->
                     WSlot(p.kids[j], positions[j][1], positions[j][2], cs + k - 1, arc)])
    IN  Flatten([j \in 1..Len(p.kids) |-> child(j)])

Query(p, arc) ==
    CASE p.op = "silence" -> <<>>
      [] p.op = "pure"    -> PureQuery(p.v, arc)
      [] p.op = "fast"    -> FastQuery(p, arc)
      [] p.op = "repeat"  -> RepeatQuery(p, arc)
      [] p.op = "seq"     -> SeqQuery(p, arc)
      [] p.op = "slowcat" -> SlowcatQuery(p, arc)
      [] p.op = "stack"   -> StackQuery(p, arc)
      [] p.op = "wseq"    -> WSeqQuery(p, arc)

(***************************************************************************)
(* Tokenizer.  A source string is a tuple of one-character strings.        *)
(* _TOK_REGEX is an alternation tried in order at each position            *)
(* (NUMBER, NOTE, REST, the one-character tokens, WS); re.finditer skips   *)
(* a character at which no alternative matches.                            *)
(***************************************************************************)
Digits == {"0", "1", "2", "3", "4", "5", "6", "7", "8", "9"}
NoteLetters == {"a", "b", "c", "d", "e", "f", "g", "A", "B", "C", "D", "E", "F", "G"}
AccidentalChars == {"#", "b", "s", "f"}
Whitespace == {" "}

DigitValue(ch) ==
    CASE ch = "0" -> 0 [] ch = "1" -> 1 [] ch = "2" -> 2 [] ch = "3" -> 3
      [] ch = "4" -> 4 [] ch = "5" -> 5 [] ch = "6" -> 6 [] ch = "7" -> 7
      [] ch = "8" -> 8 [] ch = "9" -> 9

SingleCharType(ch) ==
    CASE ch = "[" -> "LBRACK" [] ch = "]" -> "RBRACK"
      [] ch = "<" -> "LANGLE" [] ch = ">" -> "RANGLE"
      [] ch = "*" -> "STAR"   [] ch = "/" -> "SLASH"
      [] ch = "@" -> "AT"     [] ch = "!" -> "BANG"
      [] ch = "?" -> "QUESTION" [] ch = "," -> "COMMA"
      [] OTHER -> "NOMATCH"

At(s, i) == IF i >= 1 /\ i <= Len(s) THEN s[i] ELSE "EOF"

\* first index >= i whose character is not in class cls (greedy run)
RECURSIVE RunEnd(_, _, _)
RunEnd(s, i, cls) == IF At(s, i) \in cls THEN RunEnd(s, i + 1, cls) ELSE i

\* NUMBER  -?\d+(\.\d+)?  : index after the match, 0 when no match at i
MatchNumber(s, i) ==
    LET j == IF At(s, i) = "-" THEN i + 1 ELSE i
        k == RunEnd(s, j, Digits)
        m == RunEnd(s, k + 1, Digits)
    IN  IF k = j THEN 0
        ELSE IF At(s, k) = "." /\ m > k + 1 THEN m
        ELSE k

\* NOTE  [a-gA-G][#bsf]*-?\d*
MatchNote(s, i) ==
    IF At(s, i) \notin NoteLetters THEN 0
    ELSE LET j == RunEnd(s, i + 1, AccidentalChars)
             k == IF At(s, j) = "-" THEN j + 1 ELSE j
         IN  RunEnd(s, k, Digits)

Token(type, value, pos) == [type |-> type, value |-> value, pos |-> pos]

\* _tokenize: Token.pos is the 0-based offset mo.start()
RECURSIVE TokenizeFrom(_, _)
TokenizeFrom(s, i) ==
    IF i > Len(s) THEN <<>>
    ELSE LET num == MatchNumber(s, i)
             note == MatchNote(s, i)
         IN  IF num # 0
             THEN <<Token("NUMBER", SubSeq(s, i, num - 1), i - 1)>> \o TokenizeFrom(s, num)
             ELSE IF note # 0
             THEN <<Token("NOTE", SubSeq(s, i, note - 1), i - 1)>> \o TokenizeFrom(s, note)
             ELSE IF s[i] \in {"~", "-"}
             THEN <<Token("REST", <<s[i]>>, i - 1)>> \o TokenizeFrom(s, i + 1)
             ELSE IF SingleCharType(s[i]) # "NOMATCH"
             THEN <<Token(SingleCharType(s[i]), <<s[i]>>, i - 1)>> \o TokenizeFrom(s, i + 1)
             ELSE IF s[i] \in Whitespace
             THEN TokenizeFrom(s, RunEnd(s, i, Whitespace))
             ELSE TokenizeFrom(s, i + 1)

tokenize(s) == TokenizeFrom(s, 1)

(***************************************************************************)
(* Conversions of a NUMBER token's text.                                   *)
(***************************************************************************)
RECURSIVE DigitsToInt(_)
DigitsToInt(ds) ==
    IF Len(ds) = 0 THEN 0
    ELSE DigitsToInt(SubSeq(ds, 1, Len(ds) - 1)) * 10 + DigitValue(ds[Len(ds)])

RECURSIVE Pow10(_)
Pow10(k) == IF k = 0 THEN 1 ELSE 10 * Pow10(k - 1)

\* rstrip('0')
RECURSIVE RStripZeros(_)
RStripZeros(ds) ==
    IF Len(ds) > 0 /\ ds[Len(ds)] = "0" THEN RStripZeros(SubSeq(ds, 1, Len(ds) - 1)) ELSE ds

HasDot(v) == \E i \in 1..Len(v) : v[i] = "."
DotIndex(v) == CHOOSE i \in 1..Len(v) : v[i] = "."
NumSign(v) == IF At(v, 1) = "-" THEN -1 ELSE 1
NumBody(v) == IF At(v, 1) = "-" THEN Tail(v) ELSE v
IntDigits(v) == IF HasDot(NumBody(v)) THEN SubSeq(NumBody(v), 1, DotIndex(NumBody(v)) - 1) ELSE NumBody(v)
FracDigits(v) == IF HasDot(NumBody(v)) THEN SubSeq(NumBody(v), DotIndex(NumBody(v)) + 1, Len(NumBody(v))) ELSE <<>>

\* int(tok.value) of a NUMBER without '.'
StrToInt(v) == NumSign(v) * DigitsToInt(NumBody(v))

\* float(tok.value), as the exact rational it denotes
StrToFloat(v) ==
    Frac(NumSign(v) * (DigitsToInt(IntDigits(v)) * Pow10(Len(FracDigits(v))) + DigitsToInt(FracDigits(v))),
         Pow10(Len(FracDigits(v))))

\* int(float(tok.value)): truncation toward zero
StrToTruncInt(v) == NumSign(v) * DigitsToInt(IntDigits(v))

\* Fraction(tok.value): the str branch of Fraction.__init__
StrToFraction(v) ==
    LET f == StrToFloat(v)
        kept == RStripZeros(FracDigits(v))
        scale == Pow10(Len(kept))
    IN  IF f[1] % f[2] # 0
        THEN Frac(NumSign(v) * (DigitsToInt(IntDigits(v)) * scale + DigitsToInt(kept)), scale)
        ELSE Frac(f[1] \div f[2], 1)

(***************************************************************************)
(* Note names: _tokenize_note, _get_accidental_offset, _note_to_midi.      *)
(***************************************************************************)
Lower(ch) ==
    CASE ch = "A" -> "a" [] ch = "B" -> "b" [] ch = "C" -> "c" [] ch = "D" -> "d"
      [] ch = "E" -> "e" [] ch = "F" -> "f" [] ch = "G" -> "g" [] OTHER -> ch

CHROMAS(letter) ==
    CASE letter = "c" -> 0 [] letter = "d" -> 2 [] letter = "e" -> 4 [] letter = "f" -> 5
      [] letter = "g" -> 7 [] letter = "a" -> 9 [] letter = "b" -> 11

ACCIDENTALS(ch) == IF ch \in {"#", "s"} THEN 1 ELSE IF ch \in {"b", "f"} THEN -1 ELSE 0

RECURSIVE get_accidental_offset(_)
get_accidental_offset(acc) ==
    IF Len(acc) = 0 THEN 0 ELSE ACCIDENTALS(Head(acc)) + get_accidental_offset(Tail(acc))

clamp(x, lo, hi) == IF x < lo THEN lo ELSE IF x > hi THEN hi ELSE x

\* the three groups of ^([a-gA-G])([#bsf]*)(-?\d*)$ on a NOTE token's text
NoteAccEnd(v) == RunEnd(v, 2, AccidentalChars)
NoteAccidentals(v) == SubSeq(v, 2, NoteAccEnd(v) - 1)
NoteOctaveStr(v) == SubSeq(v, NoteAccEnd(v), Len(v))

\* int(octave_str) raises ValueError on a lone "-"
NoteOctaveInvalid(v) == NoteOctaveStr(v) = <<"-">>

\* _note_to_midi(note, default_octave)
note_to_midi(v, default_octave) ==
    LET octave == IF Len(NoteOctaveStr(v)) = 0 THEN default_octave ELSE StrToInt(NoteOctaveStr(v))
        midi == (octave + 1) * 12 + CHROMAS(Lower(v[1])) + get_accidental_offset(NoteAccidentals(v))
    IN  clamp(midi, 0, 127)

\* default_octave of _note_to_midi, used by parse_atom
NoteDefaultOctave == 3

(***************************************************************************)
(* _MiniParser: recursive descent over the token list.  A parse function   *)
(* returns [st, pos, pats, ws, err]: st is "ok" or the exception raised    *)
(* ("SyntaxError", "ValueError", "ZeroDivisionError"), or "hang" when the  *)
(* loop it runs never ends; pos is the parser position afterwards (tokens  *)
(* consumed so far); pats and ws are the patterns and weights produced;    *)
(* err is <<expected, got, position>> of a SyntaxError message.            *)
(***************************************************************************)
PR(st, pos, pats, ws, err) == [st |-> st, pos |-> pos, pats |-> pats, ws |-> ws, err |-> err]
Ok(pos, pats, ws) == PR("ok", pos, pats, ws, <<>>)
Fail(st, pos, err) == PR(st, pos, <<>>, <<>>, err)

\* self.peek(): the token at self.pos (0-based pos), None past the end
HasTok(toks, pos) == pos < Len(toks)
Peek(toks, pos) == toks[pos + 1]
PeekType(toks, pos) == IF HasTok(toks, pos) THEN toks[pos + 1].type ELSE "EOF"

\* self.consume(expected_type): "ok" or the SyntaxError it raises
Consume(toks, pos, expected_type) ==
    IF ~HasTok(toks, pos) THEN Fail("SyntaxError", pos, <<expected_type, "EOF", -1>>)
    ELSE IF expected_type # "ANY" /\ Peek(toks, pos).type # expected_type
    THEN Fail("SyntaxError", pos, <<expected_type, Peek(toks, pos).type, Peek(toks, pos).pos>>)
    ELSE Ok(pos + 1, <<>>, <<>>)

Modifiers == {"STAR", "SLASH", "AT", "BANG", "QUESTION"}

\* Pattern.degrade(probability): the random drop is not evaluated by Query
degrade(p, prob) ==
    IF IsRaised(p) THEN raisedPattern
    ELSE Node("degrade", RestVal, prob, 0, <<p>>, <<>>)

Replicate(x, n) == [i \in 1..n |-> x]

RECURSIVE parse(_, _)
RECURSIVE parse_layer(_, _)
RECURSIVE parse_element(_, _, _)
RECURSIVE parse_atom(_, _)
RECURSIVE ModifierLoop(_, _, _, _, _, _)
RECURSIVE LayerLoop(_, _, _, _)
RECURSIVE AngleLoop(_, _, _, _)
RECURSIVE CommaLoop(_, _, _)

\* the BANG branch of parse_element: (pattern, weight, replication)
BangResult(p, weight, replication, num, expand_replication) ==
    IF num > 0
    THEN IF expand_replication
         THEN <<p, weight, num>>
         ELSE <<fast(repeatCycles(p, num), NumInt(num)), num, replication>>
    ELSE <<silence, 0, 0>>

\* the state of parse_element's loop: position, pattern, weight, replication
MS(st, pos, p, weight, replication, err) ==
    [st |-> st, pos |-> pos, pat |-> p, weight |-> weight, replication |-> replication, err |-> err]

MSBang(pos, b) == MS("ok", pos, b[1], b[2], b[3], <<>>)

MSSlow(pos, slowed, p, weight, replication) ==
    IF IsRaised(slowed) THEN MS("ZeroDivisionError", pos, p, weight, replication, <<>>)
    ELSE MS("ok", pos, slowed, weight, replication, <<>>)

\* the modifier token tok at pos, followed by the NUMBER it requires (c is
\* the outcome of self.consume('NUMBER'), v the text of that token)
NumberModifier(tok, c, v, p, weight, replication, expand_replication) ==
    IF c.st # "ok" THEN MS(c.st, c.pos, p, weight, replication, c.err)
    ELSE IF tok.type = "STAR"
    THEN MS("ok", c.pos, fast(p, NumFrac(StrToFraction(v))), weight, replication, <<>>)
    ELSE IF tok.type = "SLASH"
    THEN MSSlow(c.pos, slow(p, NumFrac(StrToFraction(v))), p, weight, replication)
    ELSE IF tok.type = "AT"
    THEN MS("ok", c.pos, p, StrToTruncInt(v), replication, <<>>)
    ELSE MSBang(c.pos, BangResult(p, weight, replication, StrToTruncInt(v), expand_replication))

\* one pass of the `while self.peek() and self.peek().type in (...)` loop of
\* parse_element: the modifier at pos applied to (pat, weight, replication)
ModifierStep(toks, pos, p, weight, replication, expand_replication) ==
    IF Peek(toks, pos).type = "QUESTION"
    THEN IF PeekType(toks, pos + 1) = "NUMBER"
         THEN MS("ok", pos + 2, degrade(p, StrToFloat(Peek(toks, pos + 1).value)),
                 weight, replication, <<>>)
         ELSE MS("ok", pos + 1, degrade(p, Frac(1, 2)), weight, replication, <<>>)
    ELSE NumberModifier(Peek(toks, pos), Consume(toks, pos + 1, "NUMBER"),
                        IF HasTok(toks, pos + 1) THEN Peek(toks, pos + 1).value ELSE <<>>,
                        p, weight, replication, expand_replication)

ModifierNext(toks, m, expand_replication) ==
    IF m.st # "ok" THEN Fail(m.st, m.pos, m.err)
    ELSE ModifierLoop(toks, m.pos, m.pat, m.weight, m.replication, expand_replication)

\* the loop, and the `if replication > 1` return after it
ModifierLoop(toks, pos, p, weight, replication, expand_replication) ==
    IF PeekType(toks, pos) \notin Modifiers
    THEN IF replication <= 1 THEN Ok(pos, <<p>>, <<weight>>)
         ELSE Ok(pos, Replicate(p, replication), Replicate(weight, replication))
    ELSE ModifierNext(toks, ModifierStep(toks, pos, p, weight, replication, expand_replication),
                      expand_replication)

\* parse_element after its atom a
ElementAfterAtom(toks, a, expand_replication) ==
    IF a.st # "ok" THEN a
    ELSE ModifierLoop(toks, a.pos, a.pats[1], 1, 1, expand_replication)

parse_element(toks, pos, expand_replication) ==
    ElementAfterAtom(toks, parse_atom(toks, pos), expand_replication)

\* the while loop of parse_layer; e is the element just parsed
LayerNext(toks, pats, ws, e) ==
    IF e.st # "ok" THEN e
    ELSE LayerLoop(toks, e.pos, pats \o e.pats, ws \o e.ws)

LayerLoop(toks, pos, pats, ws) ==
    IF HasTok(toks, pos) /\ PeekType(toks, pos) \notin {"RBRACK", "RANGLE", "COMMA"}
    THEN LayerNext(toks, pats, ws, parse_element(toks, pos, FALSE))
    ELSE Ok(pos, pats, ws)

\* what parse_layer returns for the elements l its loop collected
LayerResult(l) ==
    IF l.st # "ok" THEN l
    ELSE IF Len(l.pats) = 0 THEN Ok(l.pos, <<silence>>, <<1>>)
    ELSE IF \E i \in 1..Len(l.ws) : l.ws[i] # 1
    THEN Ok(l.pos, <<weighted_sequence(l.pats, l.ws)>>, <<1>>)
    ELSE IF Len(l.pats) = 1 THEN Ok(l.pos, <<l.pats[1]>>, <<1>>)
    ELSE Ok(l.pos, <<sequence(l.pats)>>, <<1>>)

parse_layer(toks, pos) == LayerResult(LayerLoop(toks, pos, <<>>, <<>>))

\* the `while ... COMMA` loop of parse; l is the layer just parsed
CommaNext(toks, layers, l) ==
    IF l.st # "ok" THEN l ELSE CommaLoop(toks, l.pos, layers \o l.pats)

CommaLoop(toks, pos, layers) ==
    IF PeekType(toks, pos) = "COMMA"
    THEN CommaNext(toks, layers, parse_layer(toks, pos + 1))
    ELSE Ok(pos, layers, <<>>)

\* what parse returns for the layers it collected
StackResult(all) ==
    IF all.st # "ok" THEN all
    ELSE IF Len(all.pats) = 1 THEN Ok(all.pos, <<all.pats[1]>>, <<1>>)
    ELSE Ok(all.pos, <<stack(all.pats)>>, <<1>>)

ParseAfterFirst(toks, first) ==
    IF first.st # "ok" THEN first
    ELSE StackResult(CommaLoop(toks, first.pos, first.pats))

parse(toks, pos) == ParseAfterFirst(toks, parse_layer(toks, pos))

\* the while loop of the LANGLE branch; an element that consumes no token
\* leaves the loop condition unchanged, so the loop never ends
AngleNext(toks, pos, pats, ws, e) ==
    IF e.st # "ok" THEN e
    ELSE IF e.pos = pos THEN Fail("hang", pos, <<>>)
    ELSE AngleLoop(toks, e.pos, pats \o e.pats, ws \o e.ws)

AngleLoop(toks, pos, pats, ws) ==
    IF HasTok(toks, pos) /\ PeekType(toks, pos) \notin {"RANGLE", "COMMA"}
    THEN AngleNext(toks, pos, pats, ws, parse_element(toks, pos, TRUE))
    ELSE Ok(pos, pats, ws)

\* the slow factor of the LANGLE branch: the element count
AngleSlowFactorOne(num_elements) == 1

AngleSlowFactor(num_elements) == num_elements

\* the LBRACK branch after the inner parse
BracketClose(inner, close) ==
    IF close.st # "ok" THEN close ELSE Ok(close.pos, inner.pats, <<1>>)

BracketResult(toks, inner) ==
    IF inner.st # "ok" THEN inner
    ELSE BracketClose(inner, Consume(toks, inner.pos, "RBRACK"))

\* the LANGLE branch after its loop: slowcat as sequence(elements).slow(n)
AngleClose(elements, close) ==
    IF close.st # "ok" THEN close
    ELSE IF Len(elements) = 0 THEN Ok(close.pos, <<silence>>, <<1>>)
    ELSE IF Len(elements) = 1 THEN Ok(close.pos, <<elements[1]>>, <<1>>)
    ELSE Ok(close.pos, <<slow(sequence(elements), NumInt(AngleSlowFactor(Len(elements))))>>, <<1>>)

AngleResult(toks, els) ==
    IF els.st # "ok" THEN els
    ELSE AngleClose(els.pats, Consume(toks, els.pos, "RANGLE"))

\* the NUMBER and NOTE branches
NumberAtom(pos, value) ==
    IF HasDot(value)
    THEN Ok(pos + 1, <<pure(<<"float", StrToFloat(value)[1], StrToFloat(value)[2]>>)>>, <<1>>)
    ELSE Ok(pos + 1, <<pure(IntVal(StrToInt(value)))>>, <<1>>)

NoteAtom(pos, value) ==
    IF NoteOctaveInvalid(value) THEN Fail("ValueError", pos + 1, <<>>)
    ELSE Ok(pos + 1, <<pure(AbsVal(note_to_midi(value, NoteDefaultOctave)))>>, <<1>>)

parse_atom(toks, pos) ==
    IF ~HasTok(toks, pos) THEN Ok(pos, <<silence>>, <<1>>)
    ELSE CASE Peek(toks, pos).type = "NUMBER" -> NumberAtom(pos, Peek(toks, pos).value)
           [] Peek(toks, pos).type = "NOTE" -> NoteAtom(pos, Peek(toks, pos).value)
           [] Peek(toks, pos).type = "REST" -> Ok(pos + 1, <<pure(RestVal)>>, <<1>>)
           [] Peek(toks, pos).type = "LBRACK" -> BracketResult(toks, parse(toks, pos + 1))
           [] Peek(toks, pos).type = "LANGLE" ->
                  AngleResult(toks, AngleLoop(toks, pos + 1, <<>>, <<>>))
           [] OTHER -> Ok(pos, <<silence>>, <<1>>)

\* _parse_mini(code)
parse_mini(code) ==
    LET tokens == tokenize(code)
    IN  IF Len(tokens) = 0 THEN Ok(0, <<silence>>, <<1>>)
        ELSE parse(tokens, 0)

(***************************************************************************)
(* Playback state of a Pattern object and the tick scheduler.              *)
(* A Pattern is [query_fn, running, start_tick, phase, last_tick,          *)
(* latched_cycle_beats, pending_cycle_beats]; last_tick and the two cycle  *)
(* lengths are Optional.  A cycle length (a float in the code) is the      *)
(* exact rational <<n, d>> it stands for.                                  *)
(***************************************************************************)
Pattern(query_fn) ==
    [query_fn |-> query_fn, running |-> FALSE, start_tick |-> 0, phase |-> Frac(0, 1),
     last_tick |-> None, latched_cycle_beats |-> None, pending_cycle_beats |-> None]

\* Pattern.start(current_tick): current_tick is None or Some(tick)
StartOneTickBack(p, current_tick) ==
    [p EXCEPT !.running = TRUE,
              !.start_tick = IF IsNone(current_tick) THEN 0 ELSE Get(current_tick),
              !.phase = Frac(0, 1),
              !.last_tick = IF IsNone(current_tick) THEN None ELSE Some(Get(current_tick) - 1),
              !.latched_cycle_beats = None,
              !.pending_cycle_beats = None]

start(p, current_tick) ==
    [p EXCEPT !.running = TRUE,
              !.start_tick = IF IsNone(current_tick) THEN 0 ELSE Get(current_tick),
              !.phase = Frac(0, 1),
              !.last_tick = current_tick,
              !.latched_cycle_beats = None,
              !.pending_cycle_beats = None]

\* Pattern.stop()
stop(p) == [p EXCEPT !.running = FALSE]

\* Pattern.reset(current_tick)
reset(p, current_tick) ==
    [p EXCEPT !.start_tick = IF IsNone(current_tick) THEN 0 ELSE Get(current_tick),
              !.phase = Frac(0, 1),
              !.last_tick = current_tick,
              !.latched_cycle_beats = None,
              !.pending_cycle_beats = None]

\* round(x) of a float: to the nearest integer, ties to the even one
Round(x) ==
    LET fl == FInt(x)
        twice == FSub(FMul(x, Frac(2, 1)), FracInt(2 * fl))
    IN  IF FLt(twice, Frac(1, 1)) THEN fl
        ELSE IF FGt(twice, Frac(1, 1)) THEN fl + 1
        ELSE IF fl % 2 = 0 THEN fl ELSE fl + 1

FAbs(x) == <<Abs(x[1]), x[2]>>

\* lines 2003-2010 of tick: clamp to 0.01, then snap to an integer within 0.001
ClampCycleBeats(cycle_beats) ==
    IF FLt(cycle_beats, <<1, 100>>) THEN <<1, 100>> ELSE cycle_beats

NormalizeCycleBeats(cycle_beats) ==
    LET clamped == ClampCycleBeats(cycle_beats)
        rounded == Round(clamped)
    IN  IF FLt(FAbs(FSub(clamped, FracInt(rounded))), <<1, 1000>>)
        THEN FracInt(rounded) ELSE Frac(clamped[1], clamped[2])

\* int(ppq * active_cycle_beats)
TicksPerCycle(ppq, active_cycle_beats) == (ppq * active_cycle_beats[1]) \div active_cycle_beats[2]

\* the cycle length tick uses for this step: the latched one, else the incoming one
ActiveCycleBeats(latched, cycle_beats) ==
    IF ~IsNone(latched) THEN Get(latched) ELSE cycle_beats

\* the query arc of a tick: one phase increment wide, at the advanced phase
TickArcElapsed(phase_before, phase_after, phase_increment) ==
    Arc(phase_before, FAdd(phase_after, phase_increment))

TickArc(phase_before, phase_after, phase_increment) ==
    Arc(phase_after, FAdd(phase_after, phase_increment))

\* the list comprehension tick returns
Onsets(events) == SelectSeq(events, LAMBDA e : has_onset(e) /\ e.value # RestVal)

NoLocals ==
    [cycle_beats |-> <<0, 1>>, first |-> FALSE, phase_increment |-> <<0, 1>>,
     phase_before |-> <<0, 1>>, ticks_elapsed |-> 0, crossed |-> FALSE,
     arc |-> Arc(<<0, 1>>, <<0, 1>>)]

TickOut(p, raised, events, locals) ==
    [pat |-> p, raised |-> raised, events |-> events, locals |-> locals]

\* the running part of Pattern.tick without the test `ticks_elapsed > 0`
TickRunningAnyElapsed(p, current_tick, ppq, cycle_beats_in) ==
    LET cycle_beats == NormalizeCycleBeats(cycle_beats_in)
        first == IsNone(p.last_tick)
        last_tick1 == IF first THEN Some(current_tick) ELSE p.last_tick
        phase1 == IF first THEN Frac(0, 1) ELSE p.phase
        latched1 == IF first THEN Some(cycle_beats) ELSE p.latched_cycle_beats
        pending1 == Some(cycle_beats)
        active_cycle_beats == ActiveCycleBeats(latched1, cycle_beats)
        ticks_per_cycle == TicksPerCycle(ppq, active_cycle_beats)
        phase_increment == Frac(1, ticks_per_cycle)
        cycle_before == FInt(phase1)
        ticks_elapsed == current_tick - Get(last_tick1)
        phase2 == FAdd(phase1, FMul(phase_increment, FracInt(ticks_elapsed)))
        last_tick2 == Some(current_tick)
        cycle_after == FInt(phase2)
        latched2 == IF cycle_after > cycle_before THEN pending1 ELSE latched1
        arc == TickArc(phase1, phase2, phase_increment)
        locals == [cycle_beats |-> cycle_beats, first |-> first,
                   phase_increment |-> phase_increment, phase_before |-> phase1,
                   ticks_elapsed |-> ticks_elapsed, crossed |-> cycle_after > cycle_before,
                   arc |-> arc]
    IN  IF phase_increment = ZeroDiv
        THEN \* Fraction(1, 0) raises after the first-tick and pending assignments
             TickOut([p EXCEPT !.last_tick = last_tick1, !.phase = phase1,
                               !.latched_cycle_beats = latched1,
                               !.pending_cycle_beats = pending1],
                     TRUE, <<>>,
                     [NoLocals EXCEPT !.cycle_beats = cycle_beats, !.first = first])
        ELSE TickOut([p EXCEPT !.last_tick = last_tick2, !.phase = phase2,
                               !.latched_cycle_beats = latched2,
                               !.pending_cycle_beats = pending1],
                     FALSE, Onsets(Query(p.query_fn, arc)), locals)

\* the running part of Pattern.tick
TickRunning(p, current_tick, ppq, cycle_beats_in) ==
    LET cycle_beats == NormalizeCycleBeats(cycle_beats_in)
        first == IsNone(p.last_tick)
        last_tick1 == IF first THEN Some(current_tick) ELSE p.last_tick
        phase1 == IF first THEN Frac(0, 1) ELSE p.phase
        latched1 == IF first THEN Some(cycle_beats) ELSE p.latched_cycle_beats
        pending1 == Some(cycle_beats)
        active_cycle_beats == ActiveCycleBeats(latched1, cycle_beats)
        ticks_per_cycle == TicksPerCycle(ppq, active_cycle_beats)
        phase_increment == Frac(1, ticks_per_cycle)
        cycle_before == FInt(phase1)
        ticks_elapsed == current_tick - Get(last_tick1)
        phase2 == IF ticks_elapsed > 0
                  THEN FAdd(phase1, FMul(phase_increment, FracInt(ticks_elapsed)))
                  ELSE phase1
        last_tick2 == IF ticks_elapsed > 0 THEN Some(current_tick) ELSE last_tick1
        cycle_after == FInt(phase2)
        latched2 == IF cycle_after > cycle_before THEN pending1 ELSE latched1
        arc == TickArc(phase1, phase2, phase_increment)
        locals == [cycle_beats |-> cycle_beats, first |-> first,
                   phase_increment |-> phase_increment, phase_before |-> phase1,
                   ticks_elapsed |-> ticks_elapsed, crossed |-> cycle_after > cycle_before,
                   arc |-> arc]
    IN  IF phase_increment = ZeroDiv
        THEN \* Fraction(1, 0) raises after the first-tick and pending assignments
             TickOut([p EXCEPT !.last_tick = last_tick1, !.phase = phase1,
                               !.latched_cycle_beats = latched1,
                               !.pending_cycle_beats = pending1],
                     TRUE, <<>>,
                     [NoLocals EXCEPT !.cycle_beats = cycle_beats, !.first = first])
        ELSE TickOut([p EXCEPT !.last_tick = last_tick2, !.phase = phase2,
                               !.latched_cycle_beats = latched2,
                               !.pending_cycle_beats = pending1],
                     FALSE, Onsets(Query(p.query_fn, arc)), locals)

TickIgnoringRunning(p, current_tick, ppq, cycle_beats_in) ==
    TickRunning(p, current_tick, ppq, cycle_beats_in)

\* Pattern.tick(current_tick, ppq, cycle_beats)
tick(p, current_tick, ppq, cycle_beats_in) ==
    IF ~p.running THEN TickOut(p, FALSE, <<>>, NoLocals)
    ELSE TickRunning(p, current_tick, ppq, cycle_beats_in)


(***************************************************************************)
(* Scales: the registry, degree resolution and quantization.  A name is    *)
(* the sequence of its characters.                                         *)
(***************************************************************************)
\* scales = _Registry('scales', {...})
scales ==
    {[name |-> <<"m", "a", "j", "o", "r">>, intervals |-> <<0, 2, 4, 5, 7, 9, 11>>],
     [name |-> <<"m", "i", "n", "o", "r">>, intervals |-> <<0, 2, 3, 5, 7, 8, 10>>],
     [name |-> <<"d", "o", "r", "i", "a", "n">>, intervals |-> <<0, 2, 3, 5, 7, 9, 10>>],
     [name |-> <<"p", "h", "r", "y", "g", "i", "a", "n">>, intervals |-> <<0, 1, 3, 5, 7, 8, 10>>],
     [name |-> <<"l", "y", "d", "i", "a", "n">>, intervals |-> <<0, 2, 4, 6, 7, 9, 11>>],
     [name |-> <<"m", "i", "x", "o", "l", "y", "d", "i", "a", "n">>, intervals |-> <<0, 2, 4, 5, 7, 9, 10>>],
     [name |-> <<"l", "o", "c", "r", "i", "a", "n">>, intervals |-> <<0, 1, 3, 5, 6, 8, 10>>],
     [name |-> <<"p", "e", "n", "t", "a", "t", "o", "n", "i", "c">>, intervals |-> <<0, 2, 4, 7, 9>>],
     [name |-> <<"m", "i", "n", "o", "r", "_", "p", "e", "n", "t", "a", "t", "o", "n", "i", "c">>, intervals |-> <<0, 3, 5, 7, 10>>],
     [name |-> <<"b", "l", "u", "e", "s">>, intervals |-> <<0, 3, 5, 6, 7, 10>>],
     [name |-> <<"h", "a", "r", "m", "o", "n", "i", "c", "_", "m", "i", "n", "o", "r">>, intervals |-> <<0, 2, 3, 5, 7, 8, 11>>],
     [name |-> <<"m", "e", "l", "o", "d", "i", "c", "_", "m", "i", "n", "o", "r">>, intervals |-> <<0, 2, 3, 5, 7, 9, 11>>],
     [name |-> <<"d", "i", "m", "i", "n", "i", "s", "h", "e", "d">>, intervals |-> <<0, 2, 3, 5, 6, 8, 9, 11>>],
     [name |-> <<"d", "i", "m", "i", "n", "i", "s", "h", "e", "d", "_", "h", "w">>, intervals |-> <<0, 1, 3, 4, 6, 7, 9, 10>>],
     [name |-> <<"c", "h", "r", "o", "m", "a", "t", "i", "c">>, intervals |-> <<0, 1, 2, 3, 4, 5, 6, 7, 8, 9, 10, 11>>]}

ScalesHas(name) == \E s \in scales : s.name = name
\* _Registry.get(key): the lowered key's entry
ScalesGet(name) == (CHOOSE s \in scales : s.name = name).intervals

\* _scale_degree_to_midi without the octave wrapping
ScaleDegreeNoOctave(degree, scale_intervals, scale_root) ==
    scale_root + scale_intervals[(degree % Len(scale_intervals)) + 1]

\* _scale_degree_to_midi(degree, scale_intervals, scale_root)
scale_degree_to_midi(degree, scale_intervals, scale_root) ==
    LET num_degrees == Len(scale_intervals)
        octave_offset == degree \div num_degrees
        degree_in_scale == degree % num_degrees
        semitone_offset == scale_intervals[degree_in_scale + 1]
    IN  scale_root + semitone_offset + (octave_offset * 12)

\* the scale notes of one octave that lie in 0..127, in interval order
OctaveNotes(scale_intervals, scale_root, octave) ==
    SelectSeq([i \in 1..Len(scale_intervals) |->
                  scale_root + scale_intervals[i] + (octave * 12)],
              LAMBDA note : 0 <= note /\ note <= 127)

\* all_scale_notes: for octave in range(-1, 10), for interval in scale_intervals
AllScaleNotes(scale_intervals, scale_root) ==
    Flatten([k \in 1..11 |-> OctaveNotes(scale_intervals, scale_root, k - 2)])

\* the "find nearest" loop: best_note after the notes from index i on
RECURSIVE Nearest(_, _, _, _, _)
Nearest(notes, i, midi_note, best_note, best_diff) ==
    IF i > Len(notes) THEN best_note
    ELSE IF best_diff < 0 \/ Abs(notes[i] - midi_note) < best_diff
    THEN Nearest(notes, i + 1, midi_note, notes[i], Abs(notes[i] - midi_note))
    ELSE Nearest(notes, i + 1, midi_note, best_note, best_diff)

\* _quantize_to_scale(midi_note, scale_intervals, scale_root); best_diff
\* starts at infinity, written -1 here
quantize_to_scale(midi_note, scale_intervals, scale_root) ==
    Nearest(AllScaleNotes(scale_intervals, scale_root), 1, midi_note, scale_root, -1)


(***************************************************************************)
(* Scale strings: _parse_scale on a registry.  A registry is the set of    *)
(* its entries [name, intervals]; a string is the sequence of its          *)
(* characters.                                                             *)
(***************************************************************************)
UpperChars ==
    <<"A", "B", "C", "D", "E", "F", "G", "H", "I", "J", "K", "L", "M",
      "N", "O", "P", "Q", "R", "S", "T", "U", "V", "W", "X", "Y", "Z">>
LowerChars ==
    <<"a", "b", "c", "d", "e", "f", "g", "h", "i", "j", "k", "l", "m",
      "n", "o", "p", "q", "r", "s", "t", "u", "v", "w", "x", "y", "z">>

\* str.lower()
StrLower(s) ==
    [i \in 1..Len(s) |->
        IF \E k \in 1..Len(UpperChars) : UpperChars[k] = s[i]
        THEN LowerChars[CHOOSE k \in 1..Len(UpperChars) : UpperChars[k] = s[i]]
        ELSE s[i]]

\* str.split(sep): the parts between the separators, empty parts included
RECURSIVE StrSplit(_, _)
StrSplit(s, sep) ==
    IF \A i \in 1..Len(s) : s[i] # sep THEN <<s>>
    ELSE <<SubSeq(s, 1, (CHOOSE i \in 1..Len(s) : s[i] = sep /\ \A j \in 1..(i - 1) : s[j] # sep) - 1)>>
         \o StrSplit(SubSeq(s, (CHOOSE i \in 1..Len(s) : s[i] = sep /\ \A j \in 1..(i - 1) : s[j] # sep) + 1, Len(s)), sep)

\* _Registry.__contains__ and _Registry.get on the entries data
RegistryHas(data, key) == \E s \in data : s.name = StrLower(key)
RegistryGet(data, key) == (CHOOSE s \in data : s.name = StrLower(key)).intervals

\* _Registry.list(): the names of the entries
RegistryList(data) == {s.name : s \in data}

\* _Registry.add(name, value): the entry of the lowered name is replaced
RegistryAdd(data, name, value) ==
    {s \in data : s.name # StrLower(name)} \cup {[name |-> StrLower(name), intervals |-> value]}

\* _tokenize_note(note) finds a letter: ^([a-gA-G])([#bsf]*)(-?\d*)$ matches
NoteMatches(v) ==
    /\ Len(v) >= 1
    /\ v[1] \in NoteLetters
    /\ \A i \in NoteAccEnd(v)..Len(v) : v[i] \in Digits \/ (v[i] = "-" /\ i = NoteAccEnd(v))

\* a result of _parse_scale: the pair it returns, or the ValueError it raises
\* with what its message names
ScaleOk(intervals, root_midi) ==
    [st |-> "ok", intervals |-> intervals, root_midi |-> root_midi, msg |-> "", available |-> {}]
ScaleError(msg, available) ==
    [st |-> "ValueError", intervals |-> <<>>, root_midi |-> 0, msg |-> msg, available |-> available]

\* default_octave of the _note_to_midi call in _parse_scale
ScaleDefaultOctave == 3

\* _parse_scale that falls back to the major scale for an unknown name
ParseScaleFallback(data, scale_str) ==
    ScaleOk(<<0, 2, 4, 5, 7, 9, 11>>, 60)

\* _parse_scale(scale_str) with the registry entries data
parse_scale(data, scale_str) ==
    LET parts == StrSplit(StrLower(scale_str), ":")
    IN  IF Len(parts) # 2 THEN ScaleError("Invalid scale format", {})
        ELSE IF ~RegistryHas(data, parts[2])
        THEN ScaleError("Unknown scale", RegistryList(data))
        ELSE IF ~NoteMatches(parts[1]) THEN ScaleError("Invalid note format", {})
        ELSE IF NoteOctaveInvalid(parts[1]) THEN ScaleError("invalid literal for int()", {})
        ELSE ScaleOk(RegistryGet(data, parts[2]), note_to_midi(parts[1], ScaleDefaultOctave))

(***************************************************************************)
(* PatternChain, the chain registry, the trigger queue and update().       *)
(* A voice is [note]; a chain is [midi, mute, running, pattern, root,      *)
(* cycle_beats, scale, scale_root, parent_voice, prev_state, state,        *)
(* bus_name, bus_voice_id, updaters] with midi, scale, scale_root,         *)
(* parent_voice, prev_state, bus_name and bus_voice_id Optional; state is  *)
(* the part of _state that tick writes; an updater is the identity of the  *)
(* chain its call stops.  scale_arg is no field of the code: it keeps the  *)
(* scale string the chain was made with, as the parts that ':' joins.      *)
(* The chain objects live in w.chains, a chain's identity being its index  *)
(* there; w is the record of the module globals (sys below).  A registry   *)
(* entry is [chain_id, cycle_beats, root, parent_id], an entry of          *)
(* _voice_chain_map [parent_id, bus_name, bus_voice_id, chain_id].  A      *)
(* duration (a float in the code) is the exact rational it stands for.     *)
(***************************************************************************)
Voice(note) == [note |-> note]

\* the base state dictionary of PatternChain.__init__; durations is None
\* while the key '_durations' is absent
ChainState ==
    [notes |-> <<>>, n |-> <<>>, durations |-> None, step |-> 0,
     phase |-> Frac(0, 1), cycle |-> 0, onset |-> FALSE]

\* PatternChain(midi_wrapper, mute)
PatternChain(midi_wrapper, mute) ==
    [midi |-> midi_wrapper, mute |-> mute, running |-> TRUE, pattern |-> None,
     root |-> 60, cycle_beats |-> FracInt(4), scale |-> None, scale_root |-> None,
     parent_voice |-> None, prev_state |-> None, state |-> ChainState,
     bus_name |-> None, bus_voice_id |-> None, updaters |-> <<>>, scale_arg |-> None]

\* TriggerState(source = Note(m, l), note_length, parent); Note clamps m.
\* serial is no field of the code: the n-th object appended to
\* _trigger_queue carries n
TriggerState(m, note_length, parent) ==
    [m |-> clamp(m, 0, 127), note_length |-> note_length, parent |-> parent, pending |-> TRUE,
     serial |-> 0]

\* the note tick appends for one event value
ResolveValue(chain, v) ==
    IF v[1] = "abs"
    THEN IF ~IsNone(chain.scale)
         THEN quantize_to_scale(v[2], Get(chain.scale), Get(chain.scale_root))
         ELSE v[2]
    ELSE IF ~IsNone(chain.scale)
         THEN scale_degree_to_midi(Trunc(v[2], v[3]), Get(chain.scale), Get(chain.scale_root))
         ELSE Trunc(chain.root * v[3] + v[2], v[3])

\* the n value tick appends for one event value
NValue(v) == IF v[1] = "abs" THEN IntVal(v[2]) ELSE v

\* max(0.01, float(whole span) * cycle_beats)
EventDuration(e, cycle_beats) ==
    IF IsNone(e.whole) THEN Frac(1, 10)
    ELSE FMax(Frac(1, 100), FMul(FSub(Get(e.whole)[2], Get(e.whole)[1]), cycle_beats))

\* the events tick processes: rests and unknown values are skipped
Valued(events) == SelectSeq(events, LAMBDA e : e.value[1] \in {"abs", "int", "float"})

\* state['step'] from the first event's whole and the distinct onset times
StepOf(events, step) ==
    IF IsNone(events[1].whole) THEN step
    ELSE LET whole_start == Get(events[1].whole)[1]
             step_frac == FSub(whole_start, FracInt(Trunc(whole_start[1], whole_start[2])))
             unique_onsets == Cardinality({Frac(Get(events[i].whole)[1][1], Get(events[i].whole)[1][2]) :
                                              i \in {k \in 1..Len(events) : ~IsNone(events[k].whole)}})
             scaled == FMul(step_frac, FracInt(IF unique_onsets > 1 THEN unique_onsets ELSE 1))
         IN  Trunc(scaled[1], scaled[2])

\* the state after tick has processed the events the pattern returned
StateAfter(chain, events, phase, cycle_beats) ==
    LET s1 == [chain.state EXCEPT !.onset = FALSE,
                                  !.phase = FSub(phase, FracInt(Trunc(phase[1], phase[2]))),
                                  !.cycle = Trunc(phase[1], phase[2])]
        valued == Valued(events)
    IN  IF Len(events) = 0 THEN s1
        ELSE [s1 EXCEPT !.onset = TRUE,
                        !.n = [i \in 1..Len(valued) |-> NValue(valued[i].value)],
                        !.notes = [i \in 1..Len(valued) |-> ResolveValue(chain, valued[i].value)],
                        !.durations = Some([i \in 1..Len(valued) |-> EventDuration(valued[i], cycle_beats)]),
                        !.step = StepOf(events, chain.state.step)]

\* the parent _fire_notes triggers with: the wrapper's parentVoice, else
\* the chain's own _parent_voice
FireParent(chain) ==
    IF ~IsNone(chain.midi) THEN Some(Get(chain.midi)) ELSE chain.parent_voice

\* PatternChain._fire_notes that triggers without looking at the parent
FireNotesAlways(chain) ==
    [i \in 1..Len(chain.state.notes) |->
        TriggerState(chain.state.notes[i], Get(chain.state.durations)[i], FireParent(chain))]

\* PatternChain._fire_notes(): the triggers it queues
fire_notes(chain) ==
    IF IsNone(FireParent(chain)) THEN <<>>
    ELSE [i \in 1..Len(chain.state.notes) |->
            TriggerState(chain.state.notes[i],
                         IF ~IsNone(chain.state.durations) /\ i <= Len(Get(chain.state.durations))
                         THEN Get(chain.state.durations)[i]
                         ELSE FMax(Frac(1, 100), FDiv(chain.cycle_beats, FracInt(4))),
                         FireParent(chain))]

\* a result of PatternChain.tick: the chain, the triggers queued, the
\* exception that left it
ChainOut(chain, triggers, raised) == [chain |-> chain, triggers |-> triggers, raised |-> raised]

\* PatternChain.tick after self._pattern.tick has returned t, without the
\* test of _mute
ChainTickedIgnoresMute(chain, t, cycle_beats) ==
    IF t.raised
    THEN ChainOut([chain EXCEPT !.prev_state = Some(chain.state), !.state.onset = FALSE,
                                !.pattern = Some(t.pat)],
                  <<>>, "ZeroDivisionError")
    ELSE ChainOut([chain EXCEPT !.prev_state = Some(chain.state), !.pattern = Some(t.pat),
                                !.state = StateAfter(chain, t.events, t.pat.phase, cycle_beats)],
                  IF Len(t.events) > 0
                  THEN fire_notes([chain EXCEPT !.state = StateAfter(chain, t.events, t.pat.phase, cycle_beats)])
                  ELSE <<>>,
                  "none")

\* PatternChain.tick after self._pattern.tick has returned t
ChainTicked(chain, t, cycle_beats) ==
    IF t.raised
    THEN ChainOut([chain EXCEPT !.prev_state = Some(chain.state), !.state.onset = FALSE,
                                !.pattern = Some(t.pat)],
                  <<>>, "ZeroDivisionError")
    ELSE ChainOut([chain EXCEPT !.prev_state = Some(chain.state), !.pattern = Some(t.pat),
                                !.state = StateAfter(chain, t.events, t.pat.phase, cycle_beats)],
                  IF ~chain.mute /\ Len(t.events) > 0
                  THEN fire_notes([chain EXCEPT !.state = StateAfter(chain, t.events, t.pat.phase, cycle_beats)])
                  ELSE <<>>,
                  "none")

\* PatternChain.changed(key) that compares with the state of a new chain
ChangedSinceCreation(chain, key) ==
    IF IsNone(key) THEN chain.state.onset
    ELSE chain.state[Get(key)] # ChainState[Get(key)]

\* PatternChain.changed(key), key None or the name of a state field; a
\* missing key reads as Python's None, which no value tick stores equals
changed(chain, key) ==
    IF IsNone(key) THEN chain.state.onset
    ELSE IF IsNone(chain.prev_state)
         THEN Get(key) = "durations" => ~IsNone(chain.state.durations)
         ELSE chain.state[Get(key)] # Get(chain.prev_state)[Get(key)]

\* PatternChain.tick(current_tick, ppq, cycle_beats)
chain_tick(chain, current_tick, ppq_in, cycle_beats) ==
    IF ~chain.running \/ IsNone(chain.pattern) THEN ChainOut(chain, <<>>, "none")
    ELSE ChainTicked(chain, tick(Get(chain.pattern), current_tick, ppq_in, cycle_beats), cycle_beats)

(***************************************************************************)
(* BusRegistry.  A bus is [active, history, history_limit, voice_counter]: *)
(* active is the dict part, the entries [voice_id, chain] in insertion     *)
(* order; history is the list of batches [release_tick, chains], newest    *)
(* first.  A voice id is <<time.time(), counter>>, the wall clock being an *)
(* input of register.  A chain in a bus is the identity of the chain       *)
(* object.                                                                 *)
(***************************************************************************)
\* BusRegistry()
BusRegistry == [active |-> <<>>, history |-> <<>>, history_limit |-> 10, voice_counter |-> 0]

\* voice_id in self
BusHas(b, voice_id) == \E i \in 1..Len(b.active) : b.active[i].voice_id = voice_id

\* BusRegistry.register(chain) while time.time() is now: the bus
\* afterwards; the id is <<now, its voice_counter>>
bus_register(b, chain, now) ==
    [b EXCEPT !.voice_counter = @ + 1,
              !.active = Append(@, [voice_id |-> <<now, b.voice_counter + 1>>, chain |-> chain])]

\* voice id a below voice id b, as Python orders tuples
IdLess(a, b) == a[1] < b[1] \/ (a[1] = b[1] /\ a[2] < b[2])

\* BusRegistry.newest(): the chain under max(self.keys())
bus_newest(b) ==
    IF Len(b.active) = 0 THEN None
    ELSE Some((CHOOSE e \in {b.active[i] : i \in 1..Len(b.active)} :
                  \A i \in 1..Len(b.active) : ~IdLess(e.voice_id, b.active[i].voice_id)).chain)

\* BusRegistry.oldest(): the chain under min(self.keys())
bus_oldest(b) ==
    IF Len(b.active) = 0 THEN None
    ELSE Some((CHOOSE e \in {b.active[i] : i \in 1..Len(b.active)} :
                  \A i \in 1..Len(b.active) : ~IdLess(b.active[i].voice_id, e.voice_id)).chain)

\* the history after `while len(self._history) > self.history_limit: pop()`
Trimmed(history, history_limit) ==
    IF Len(history) > history_limit
    THEN SubSeq(history, 1, IF history_limit > 0 THEN history_limit ELSE 0)
    ELSE history

\* the history once the chain is put in the front batch or in a new one
Batched(history, chain, release_tick) ==
    IF Len(history) > 0 /\ history[1].release_tick = release_tick
    THEN [history EXCEPT ![1].chains = Append(@, chain)]
    ELSE <<[release_tick |-> release_tick, chains |-> <<chain>>]>> \o history

\* BusRegistry.release that never trims the history
BusReleaseUntrimmed(b, voice_id, release_tick) ==
    IF ~BusHas(b, voice_id) THEN b
    ELSE [b EXCEPT !.active = SelectSeq(@, LAMBDA e : e.voice_id # voice_id),
                   !.history = Batched(@, (CHOOSE e \in {b.active[i] : i \in 1..Len(b.active)} :
                                              e.voice_id = voice_id).chain, release_tick)]

\* BusRegistry.release that opens its batch behind the older ones
BusReleaseBehind(b, voice_id, release_tick) ==
    IF ~BusHas(b, voice_id) THEN b
    ELSE [b EXCEPT !.active = SelectSeq(@, LAMBDA e : e.voice_id # voice_id),
                   !.history = Trimmed(@ \o <<[release_tick |-> release_tick,
                                               chains |-> <<(CHOOSE e \in {b.active[i] : i \in 1..Len(b.active)} :
                                                               e.voice_id = voice_id).chain>>]>>,
                                       b.history_limit)]

\* BusRegistry.release(voice_id, release_tick)
bus_release(b, voice_id, release_tick) ==
    IF ~BusHas(b, voice_id) THEN b
    ELSE [b EXCEPT !.active = SelectSeq(@, LAMBDA e : e.voice_id # voice_id),
                   !.history = Trimmed(Batched(@, (CHOOSE e \in {b.active[i] : i \in 1..Len(b.active)} :
                                                      e.voice_id = voice_id).chain, release_tick),
                                       b.history_limit)]

\* BusRegistry.last(n)
bus_last(b, n) == IF n >= Len(b.history) THEN <<>> ELSE b.history[n + 1].chains

\* bus(name): the buses once the bus of that name exists
bus(buses, name) == IF name \in DOMAIN buses THEN buses ELSE buses @@ (name :> BusRegistry)

\* _register_chain(parent_voice, chain, cycle_beats, root)
register_chain(w, parent_voice, chain_id, cycle_beats, root) ==
    [w EXCEPT !.registry = Append(@, [chain_id |-> chain_id, cycle_beats |-> cycle_beats,
                                      root |-> root, parent_id |-> parent_voice]),
              !.voice_chain_map =
                  IF IsNone(parent_voice) THEN @
                  ELSE Append(@, [parent_id |-> parent_voice,
                                  bus_name |-> w.chains[chain_id].bus_name,
                                  bus_voice_id |-> w.chains[chain_id].bus_voice_id,
                                  chain_id |-> chain_id])]

\* chain_id in _chain_registry, and its entry
Registered(w, chain_id) == \E i \in 1..Len(w.registry) : w.registry[i].chain_id = chain_id
RegistryEntry(w, chain_id) ==
    w.registry[CHOOSE i \in 1..Len(w.registry) : w.registry[i].chain_id = chain_id]

\* _unregister_chain(chain)
unregister_chain(w, chain_id) ==
    [w EXCEPT !.registry = SelectSeq(@, LAMBDA e : e.chain_id # chain_id)]

\* the buses after `if self._bus_voice_id in bus_reg: dict.__delitem__(...)`
BusDropped(buses, name, voice_id) ==
    [bus(buses, name) EXCEPT ![name].active = SelectSeq(@, LAMBDA e : e.voice_id # voice_id)]

\* PatternChain.stop() that leaves the chain in the update registry
ChainStopKeepsRegistered(w, chain_id) ==
    [w EXCEPT !.chains[chain_id].running = FALSE,
              !.chains[chain_id].pattern = IF IsNone(@) THEN @ ELSE Some(stop(Get(@))),
              !.buses = IF ~IsNone(w.chains[chain_id].bus_name) /\ ~IsNone(w.chains[chain_id].bus_voice_id)
                        THEN BusDropped(@, Get(w.chains[chain_id].bus_name),
                                        Get(w.chains[chain_id].bus_voice_id))
                        ELSE @]

\* PatternChain.stop()
chain_stop(w, chain_id) ==
    unregister_chain(
        [w EXCEPT !.chains[chain_id].running = FALSE,
                  !.chains[chain_id].pattern = IF IsNone(@) THEN @ ELSE Some(stop(Get(@))),
                  !.buses = IF ~IsNone(w.chains[chain_id].bus_name) /\ ~IsNone(w.chains[chain_id].bus_voice_id)
                            THEN BusDropped(@, Get(w.chains[chain_id].bus_name),
                                            Get(w.chains[chain_id].bus_voice_id))
                            ELSE @],
        chain_id)

\* the updaters of a chain, called in turn: each stops its chain
RECURSIVE RunUpdaters(_, _, _)
RunUpdaters(w, updaters, i) ==
    IF i > Len(updaters) THEN w
    ELSE RunUpdaters(chain_stop(w, updaters[i]), updaters, i + 1)

\* float(cycle_beats), at least 0.01
ResolveCycleBeats(cycle_beats) == IF FLe(cycle_beats, Frac(0, 1)) THEN Frac(1, 100) ELSE cycle_beats

\* one pass of the loop of _update_pattern_chains for a running chain, r
\* being what chain.tick returned: the chain is written back, its updaters
\* have run, its triggers are queued; ticked lists the chains ticked
UpdateEntry(w, chain_id, r) ==
    [(IF r.raised = "none"
      THEN RunUpdaters([w EXCEPT !.chains[chain_id] = r.chain], r.chain.updaters, 1)
      ELSE [w EXCEPT !.chains[chain_id] = r.chain])
     EXCEPT !.trigger_queue = @ \o [i \in 1..Len(r.triggers) |->
                                        [r.triggers[i] EXCEPT !.serial = w.queued + i]],
            !.queued = @ + Len(r.triggers),
            !.raised = r.raised,
            !.ticked = Append(@, chain_id)]

\* the loop of _update_pattern_chains over ids, the snapshot of the keys,
\* from position i on
RECURSIVE update_pattern_chains(_, _, _, _, _)
update_pattern_chains(w, ids, i, current_tick, ppq_in) ==
    IF i > Len(ids) \/ w.raised # "none" THEN w
    ELSE IF ~Registered(w, ids[i]) THEN [w EXCEPT !.raised = "KeyError"]
    ELSE IF ~w.chains[ids[i]].running
    THEN update_pattern_chains(unregister_chain(w, ids[i]), ids, i + 1, current_tick, ppq_in)
    ELSE update_pattern_chains(
            UpdateEntry(w, ids[i],
                        chain_tick([w.chains[ids[i]] EXCEPT
                                        !.root = RegistryEntry(w, ids[i]).root,
                                        !.cycle_beats = ResolveCycleBeats(RegistryEntry(w, ids[i]).cycle_beats)],
                                   current_tick, ppq_in,
                                   ResolveCycleBeats(RegistryEntry(w, ids[i]).cycle_beats))),
            ids, i + 1, current_tick, ppq_in)

\* _base_update() that fires the newest pending trigger first
BaseUpdateNewestFirst(w) ==
    [w EXCEPT !.fired = [i \in 1..Len(w.trigger_queue) |->
                            [w.trigger_queue[Len(w.trigger_queue) + 1 - i] EXCEPT !.pending = FALSE]],
              !.trigger_queue = <<>>]

\* _base_update(): every pending trigger is fired in queue order and
\* leaves the queue; fired lists what this call fired
base_update(w) ==
    [w EXCEPT !.fired = [i \in 1..Len(w.trigger_queue) |-> [w.trigger_queue[i] EXCEPT !.pending = FALSE]],
              !.trigger_queue = <<>>]

\* stop_patterns_for_voice from entry i of the voice's list on
RECURSIVE ReleaseEntries(_, _, _, _)
ReleaseEntries(w, entries, i, release_tick) ==
    IF i > Len(entries) THEN w
    ELSE ReleaseEntries(
            LET e == entries[i]
                w1 == IF ~IsNone(e.bus_name) /\ ~IsNone(e.bus_voice_id)
                      THEN [w EXCEPT !.buses =
                               [bus(@, Get(e.bus_name)) EXCEPT ![Get(e.bus_name)] =
                                   bus_release(@, Get(e.bus_voice_id), release_tick)]]
                      ELSE w
            IN  IF Registered(w1, e.chain_id)
                THEN unregister_chain(
                        [w1 EXCEPT !.chains[e.chain_id].running = FALSE,
                                   !.chains[e.chain_id].pattern = IF IsNone(@) THEN @ ELSE Some(stop(Get(@)))],
                        e.chain_id)
                ELSE w1,
            entries, i + 1, release_tick)

\* stop_patterns_for_voice that takes the chains of every voice
StopPatternsAnyVoice(w, parent_voice, release_tick) ==
    [ReleaseEntries(w, w.voice_chain_map, 1, release_tick) EXCEPT !.voice_chain_map = <<>>]

\* stop_patterns_for_voice(parent_voice), vfx.context.ticks being
\* release_tick
stop_patterns_for_voice(w, parent_voice, release_tick) ==
    [ReleaseEntries(w, SelectSeq(w.voice_chain_map, LAMBDA e : e.parent_id = Some(parent_voice)),
                    1, release_tick)
     EXCEPT !.voice_chain_map = SelectSeq(@, LAMBDA e : e.parent_id # Some(parent_voice))]

(***************************************************************************)
(* The state machine of one Pattern object driven by its host.             *)
(*   pat   the Pattern object (its query function and playback fields)     *)
(*   ppq   vfx.context.PPQ, fixed by the host                              *)
(*   out   the last call: its name, its cycle_beats argument, whether it   *)
(*         raised, the events it returned and the locals of tick           *)
(*   hist  history of the tick calls since the last start/reset            *)
(*   q     the last evaluation of a pure operation (QuerySpec below)       *)
(*   sys   the module globals (ChainSpec below)                           *)
(***************************************************************************)
VARIABLES pat, ppq, out, hist, q, sys

vars == <<pat, ppq, out, hist, q, sys>>

MaxTick == 4

Src0357 == <<"0", " ", "3", " ", "5", " ", "7">>
Pattern0357 == parse_mini(Src0357).pats[1]
TickSources == {Src0357}

PPQs == {4, 100}
CycleInputs == {<<0, 1>>, <<1, 2>>, <<1, 1>>}
StartArgs == {None, Some(0)}

Out(op, cycle_beats_in, raised, events, locals) ==
    [op |-> op, cycle_beats_in |-> cycle_beats_in,
     raised |-> raised, events |-> events, locals |-> locals]

(***************************************************************************)
(* hist: what the tick calls since the last start/reset have been.         *)
(*   fresh        no tick has reached the running pattern yet              *)
(*   was_fresh    the last tick was the first one                          *)
(*   began        the cycle length that came in when the current cycle     *)
(*                began (at the first tick, or at the tick that crossed    *)
(*                into it)                                                 *)
(*   first_beats  the cycle length of the first tick                       *)
(*   consecutive  the first tick came at the step of the start and every   *)
(*                later one exactly one step after its predecessor, and    *)
(*                none raised                                              *)
(*   constant     every tick passed the cycle length of the first one      *)
(*   fired        events returned so far, while consecutive and constant   *)
(***************************************************************************)
NoHist ==
    [fresh |-> FALSE, was_fresh |-> FALSE, began |-> None, first_beats |-> None,
     consecutive |-> FALSE, constant |-> FALSE, fired |-> 0]

FreshHist ==
    [fresh |-> TRUE, was_fresh |-> FALSE, began |-> None, first_beats |-> None,
     consecutive |-> TRUE, constant |-> TRUE, fired |-> 0]

HistAfterTick(h, res) ==
    LET cb == res.locals.cycle_beats
        consecutive == /\ h.consecutive
                       /\ ~res.raised
                       /\ res.locals.ticks_elapsed = (IF h.fresh THEN 0 ELSE 1)
        constant == h.constant /\ (h.fresh \/ Some(cb) = h.first_beats)
    IN  [fresh |-> FALSE,
         was_fresh |-> h.fresh,
         began |-> IF h.fresh \/ res.locals.crossed THEN Some(cb) ELSE h.began,
         first_beats |-> IF h.fresh THEN Some(cb) ELSE h.first_beats,
         consecutive |-> consecutive,
         constant |-> constant,
         fired |-> IF consecutive /\ constant THEN h.fired + Len(res.events) ELSE 0]

Steady(h) == h.consecutive /\ h.constant

QIdle ==
    [kind |-> "idle", src |-> <<>>, elems |-> <<>>, c |-> 0, num |-> <<"int", 0, 1>>,
     arc |-> Arc(<<0, 1>>, <<0, 1>>), st |-> "ok", res |-> <<>>, ref |-> <<>>]

\* the module globals after import: the scales registry, _chain_registry,
\* _trigger_queue, _internal_tick; raised is the exception that left the
\* last call ("none" when it returned), last the call itself
SysInit ==
    [scales |-> scales, chains |-> <<>>, registry |-> <<>>, voice_chain_map |-> <<>>,
     buses |-> [name \in {} |-> BusRegistry], trigger_queue |-> <<>>, fired |-> <<>>,
     ticked |-> <<>>, queued |-> 0, internal_tick |-> 0,
     raised |-> "none", last |-> [op |-> "none", parts |-> None, available |-> {}]]

Init ==
    /\ \E src \in TickSources : pat = Pattern(parse_mini(src).pats[1])
    /\ ppq \in PPQs
    /\ out = Out("init", <<0, 1>>, FALSE, <<>>, NoLocals)
    /\ hist = NoHist
    /\ q = QIdle
    /\ sys = SysInit

Start(t) ==
    /\ pat' = start(pat, t)
    /\ out' = Out("start", <<0, 1>>, FALSE, <<>>, NoLocals)
    /\ hist' = FreshHist
    /\ UNCHANGED <<ppq, q, sys>>

Stop ==
    /\ pat' = stop(pat)
    /\ out' = Out("stop", <<0, 1>>, FALSE, <<>>, NoLocals)
    /\ UNCHANGED <<ppq, hist, q, sys>>

Reset(t) ==
    /\ pat' = reset(pat, t)
    /\ out' = Out("reset", <<0, 1>>, FALSE, <<>>, NoLocals)
    /\ hist' = FreshHist
    /\ UNCHANGED <<ppq, q, sys>>

Tick(current_tick, cycle_beats) ==
    \E res \in {tick(pat, current_tick, ppq, cycle_beats)} :
        /\ pat' = res.pat
        /\ out' = Out("tick", cycle_beats, res.raised, res.events, res.locals)
        /\ hist' = IF pat.running THEN HistAfterTick(hist, res) ELSE hist
        /\ UNCHANGED <<ppq, q, sys>>

Next ==
    \/ \E t \in StartArgs : Start(t)
    \/ Stop
    \/ \E t \in StartArgs : Reset(t)
    \/ \E t \in 0..MaxTick, c \in CycleInputs : Tick(t, c)

Spec == Init /\ [][Next]_vars

(***************************************************************************)
(* What "0 3 5 7" must return: event k (k = 0, 1, ...) has the degree      *)
(* Degrees0357[k mod 4] and the whole [k/4, (k+1)/4).                      *)
(***************************************************************************)
Degrees0357 == <<0, 3, 5, 7>>

QuarterEvent(k) ==
    Event(IntVal(Degrees0357[(k % 4) + 1]),
          Some(Arc(Frac(k, 4), Frac(k + 1, 4))), Arc(Frac(k, 4), Frac(k + 1, 4)))

\* the least k with k/4 >= t
CeilQuarter(t) == -((-(4 * t[1])) \div t[2])

\* the events whose onset k/4 lies in [arc[1], arc[2]), in time order
QuarterOnsets(arc) ==
    [i \in 1..(CeilQuarter(arc[2]) - CeilQuarter(arc[1])) |->
        QuarterEvent(CeilQuarter(arc[1]) + i - 1)]

SameValueWhole(evs, exp) ==
    /\ Len(evs) = Len(exp)
    /\ \A i \in 1..Len(evs) :
          /\ evs[i].value = exp[i].value
          /\ ~IsNone(evs[i].whole)
          /\ ArcEq(Get(evs[i].whole), Get(exp[i].whole))

\* the last call was a tick that reached the running pattern and returned
TickedRunning == out.op = "tick" /\ pat.running /\ ~out.raised

\* C1: with the step counter advancing by one per call, every step of a cycle
\* (the first cycle after start included) advances the phase by the increment
\* derived from the cycle length that was in effect when that cycle began.
C1_IncrementFixedWithinCycle ==
    [][(/\ pat.running
        /\ out'.op = "tick"
        /\ ~out'.raised
        /\ ~hist.fresh
        /\ hist.consecutive
        /\ hist'.consecutive)
       => out'.locals.phase_increment = Frac(1, TicksPerCycle(ppq, Get(hist.began)))]_vars

\* C2: the query arcs of consecutive ticks tile the phase axis: each arc
\* starts where the arc of the tick before it ended, whatever cycle lengths
\* are passed, so that no onset is missed or returned twice.
C2_ArcsTile ==
    [][(/\ pat.running
        /\ out.op = "tick"
        /\ out'.op = "tick"
        /\ hist.consecutive
        /\ hist'.consecutive)
       => FEq(out'.locals.arc[1], out.locals.arc[2])]_vars

\* C3: the first tick after start(t) or reset(t), with or without a tick
\* argument, leaves the latched and the pending cycle length equal to the
\* clamped incoming value and the phase at 0.
C3_FirstTickLatches ==
    (TickedRunning /\ hist.was_fresh)
    => /\ pat.latched_cycle_beats = Some(NormalizeCycleBeats(out.cycle_beats_in))
       /\ pat.pending_cycle_beats = Some(NormalizeCycleBeats(out.cycle_beats_in))
       /\ FEq(pat.phase, Frac(0, 1))

\* C4: tick never raises when the cycle length passed is zero or negative,
\* for any positive integer ppq.
C4_TickNeverRaises ==
    (out.op = "tick" /\ out.cycle_beats_in[1] <= 0) => ~out.raised

\* C5: after stop(), a tick returns no events and leaves phase, last_tick and
\* the latched and pending cycle lengths as they were, whatever step counter
\* and cycle length are passed.
C5_StoppedTickIsNoOp ==
    [][(~pat.running /\ out'.op = "tick")
       => /\ out'.events = <<>>
          /\ ~out'.raised
          /\ pat'.phase = pat.phase
          /\ pat'.last_tick = pat.last_tick
          /\ pat'.latched_cycle_beats = pat.latched_cycle_beats
          /\ pat'.pending_cycle_beats = pat.pending_cycle_beats]_vars

\* a stopped pattern that had advanced, ticked again
C5_Witness ==
    /\ out.op = "tick"
    /\ ~pat.running
    /\ FGt(pat.phase, Frac(0, 1))
    /\ ~IsNone(pat.last_tick)
    /\ ~IsNone(pat.pending_cycle_beats)

\* the phase interval of the k steps elapsed since the previous tick, at a
\* constant cycle length: from the end of the previous arc to the end of this one
ElapsedArc == Arc(FAdd(out.locals.phase_before, out.locals.phase_increment),
                  FAdd(pat.phase, out.locals.phase_increment))

SkippedSteps ==
    /\ TickedRunning
    /\ ~hist.was_fresh
    /\ hist.constant
    /\ out.locals.ticks_elapsed > 1

\* C6 as stated: when the step counter advances by k > 1 between two ticks,
\* the second tick returns the onsets of the whole elapsed interval, all k steps.
C6_ReturnsWholeElapsedInterval ==
    SkippedSteps => SameValueWhole(out.events, QuarterOnsets(ElapsedArc))

\* C6 amended: when the step counter advances by k > 1 between two ticks, the
\* second tick returns exactly the onsets inside the one-increment-wide arc
\* at the advanced phase; onsets inside the k - 1 steps before it are not returned.
C6_ReturnsOnlyLastStep ==
    SkippedSteps
    => SameValueWhole(out.events,
                      QuarterOnsets(Arc(pat.phase, FAdd(pat.phase, out.locals.phase_increment))))

\* a tick after skipped steps that returned fewer onsets than the elapsed interval holds
C6_Witness ==
    /\ SkippedSteps
    /\ Len(out.events) < Len(QuarterOnsets(ElapsedArc))

\* C8: ticking "0 3 5 7" once per step at a constant cycle length returns, tick
\* after tick, the events 0, 3, 5, 7 in that order, their wholes the consecutive
\* quarters of the cycle: four events by the end of the first cycle, and the
\* same four again in every following cycle.
C8_FourQuartersEachCycle ==
    (TickedRunning /\ Steady(hist) /\ pat.query_fn = Pattern0357)
    => /\ SameValueWhole(out.events, QuarterOnsets(out.locals.arc))
       /\ CeilQuarter(out.locals.arc[1]) = hist.fired - Len(out.events)
       /\ hist.fired = CeilQuarter(out.locals.arc[2])

\* two full cycles of two steps each ticked through: eight events fired,
\* the last one the 7 of cycle 1
C8_Witness ==
    /\ TickedRunning
    /\ Steady(hist)
    /\ pat.query_fn = Pattern0357
    /\ ppq = 4
    /\ hist.first_beats = Some(<<1, 2>>)
    /\ FEq(out.locals.arc[2], Frac(2, 1))
    /\ hist.fired = 8
    /\ out.events[Len(out.events)].value = IntVal(7)

(***************************************************************************)
(* The pure operations, one call at a time: q holds the call (its kind and *)
(* arguments), whether it raised (st) and what it returned (res).          *)
(*   "angle"     _parse_mini of an alternation <e1 e2 ...>, each element a *)
(*               digit with an optional !n, queried over one cycle c       *)
(*   "sequence"  _sequence over pure children, queried over an arc         *)
(*   "fastslow"  p.fast(f).slow(f) queried over an arc; ref is p's answer  *)
(***************************************************************************)
MaxCopies == 2
MaxCycle == 6
MaxKids == 3

DigitChars == <<"0", "1", "2", "3", "4", "5", "6", "7", "8", "9">>

\* the text of one element <<value, copies>>: "v" or "v!n"
ElementText(e) ==
    <<DigitChars[e[1] + 1]>> \o (IF e[2] # 1 THEN <<"!", DigitChars[e[2] + 1]>> ELSE <<>>)

RECURSIVE ElementsText(_)
ElementsText(elems) ==
    IF Len(elems) = 0 THEN <<>>
    ELSE IF Len(elems) = 1 THEN ElementText(elems[1])
    ELSE ElementText(elems[1]) \o <<" ">> \o ElementsText(Tail(elems))

AngleSource(elems) == <<"<">> \o ElementsText(elems) \o <<">">>

AngleValues == {0, 3, 5, 7}
AngleElements == {<<v, n>> : v \in AngleValues, n \in 1..MaxCopies}
AngleExample == <<<<0, 2>>, <<3, 1>>, <<5, 1>>, <<7, 1>>>>
AngleInputs ==
    {<<e>> : e \in AngleElements}
        \cup {<<e1, e2>> : e1 \in AngleElements, e2 \in AngleElements}
        \cup {AngleExample}
Cycles == (-2)..MaxCycle

SeqValues == {1, 2}
SeqInputs == UNION {[1..n -> SeqValues] : n \in 1..MaxKids}
\* the arcs [a/4, b/4) with -1 <= a/4 < b/4 <= 2
QueryArcs ==
    {Arc(Frac(x[1], 4), Frac(x[2], 4)) : x \in {y \in ((-4)..8) \X ((-4)..8) : y[1] < y[2]}}

SrcAngle01 == <<"<", "0", " ", "1", ">">>
SrcStack == <<"0", " ", "[", "1", ",", "2", "]">>
RoundTripSources == {Src0357, SrcAngle01, SrcStack}
Factors == {NumInt(2), NumInt(-2), NumInt(3), NumFloat(1, 2), NumFloat(3, 2),
            NumFloat(1, 10000000), NumFrac(<<2, 3>>)}

QCall(kind, src, elems, c, num, arc, st, res, ref) ==
    [kind |-> kind, src |-> src, elems |-> elems, c |-> c, num |-> num,
     arc |-> arc, st |-> st, res |-> res, ref |-> ref]

QInit ==
    /\ pat = Pattern(silence)
    /\ ppq = 4
    /\ out = Out("init", <<0, 1>>, FALSE, <<>>, NoLocals)
    /\ hist = NoHist
    /\ q = QIdle
    /\ sys = SysInit

\* _parse_mini(AngleSource(elems)).query((c, c + 1))
EvalAngle(elems, c) ==
    /\ q.kind = "idle"
    /\ \E pr \in {parse_mini(AngleSource(elems))} :
          q' = QCall("angle", AngleSource(elems), elems, c, NumInt(0),
                     Arc(FracInt(c), FracInt(c + 1)), pr.st,
                     IF pr.st = "ok"
                     THEN Query(pr.pats[1], Arc(FracInt(c), FracInt(c + 1)))
                     ELSE <<>>,
                     <<>>)
    /\ UNCHANGED <<pat, ppq, out, hist, sys>>

\* _sequence(pure(v1), ..., pure(vn)).query(arc)
EvalSequence(vals, arc) ==
    /\ q.kind = "idle"
    /\ \E p \in {sequence([i \in 1..Len(vals) |-> pure(IntVal(vals[i]))])} :
          q' = QCall("sequence", <<>>, vals, 0, NumInt(0), arc, "ok", Query(p, arc), <<>>)
    /\ UNCHANGED <<pat, ppq, out, hist, sys>>

\* _parse_mini(src).fast(f).slow(f).query(arc), and _parse_mini(src).query(arc)
EvalFastSlow(src, f, arc) ==
    /\ q.kind = "idle"
    /\ \E p \in {parse_mini(src).pats[1]} :
       \E r \in {slow(fast(p, f), f)} :
          q' = QCall("fastslow", src, <<>>, 0, f, arc,
                     IF IsRaised(r) THEN "ZeroDivisionError" ELSE "ok",
                     IF IsRaised(r) THEN <<>> ELSE Query(r, arc),
                     Query(p, arc))
    /\ UNCHANGED <<pat, ppq, out, hist, sys>>

SrcAngle012 == <<"<", "0", " ", "1", " ", "2", ">">>
RepeatSources == {SrcAngle01, SrcAngle012}
RepeatCounts == {2, 3}
\* the arcs inside one cycle: the whole cycle and its two halves
CycleArcs ==
    {Arc(Frac(2 * c + x[1], 2), Frac(2 * c + x[2], 2)) :
        c \in Cycles, x \in {<<0, 2>>, <<0, 1>>, <<1, 2>>}}

\* _parse_mini(src).repeatCycles(n).query(arc); ref is the source pattern's
\* answer for source cycle floor(c / n), shifted forward into cycle c
EvalRepeat(src, n, arc) ==
    /\ q.kind = "idle"
    /\ \E p \in {parse_mini(src).pats[1]} :
       \E d \in {FracInt(FInt(arc[1]) - (FInt(arc[1]) \div n))} :
          q' = QCall("repeat", src, <<>>, FInt(arc[1]), NumInt(n), arc, "ok",
                     Query(repeatCycles(p, n), arc),
                     MapEvents(Query(p, Arc(FSub(arc[1], d), FSub(arc[2], d))),
                               LAMBDA t : FAdd(t, d)))
    /\ UNCHANGED <<pat, ppq, out, hist, sys>>

\* sources with a character outside the grammar, an unmatched closing
\* bracket, or tokens after the pattern
MalformedSources ==
    {<<"0", " ", "x", " ", "3">>, <<"0", " ", "$", " ", "3">>,
     <<"0", " ", "]", " ", "3">>, <<"0", " ", ">", " ", "3">>,
     <<"]">>, <<"0", " ", "3", " ", "]">>}
\* sources that end inside a group or after a modifier
UnclosedSources ==
    {<<"[", "0", " ", "3">>, <<"<", "0", " ", "3">>, <<"0", " ", "*">>}

\* sources with a ']' inside '<...>'
StrayBracketSources ==
    {<<"<", "0", " ", "]", ">">>, <<"<", "]", ">">>, <<"<", "0", " ", "]", " ", "3", ">">>}

\* _parse_mini(src), and the query of cycle 0 when it returns a pattern;
\* c is the parser position at return, num the number of tokens
EvalParse(src) ==
    /\ q.kind = "idle"
    /\ \E pr \in {parse_mini(src)} :
          q' = QCall("parse", src, <<>>, pr.pos, NumInt(Len(tokenize(src))),
                     Arc(FracInt(0), FracInt(1)), pr.st,
                     IF pr.st = "ok"
                     THEN Query(pr.pats[1], Arc(FracInt(0), FracInt(1)))
                     ELSE <<>>,
                     <<>>)
    /\ UNCHANGED <<pat, ppq, out, hist, sys>>

\* elements written "v" or "v!0", two or three of them
ZeroCopyElements == {<<v, n>> : v \in {0, 3}, n \in {0, 1}}
ZeroCopyInputs == UNION {[1..n -> ZeroCopyElements] : n \in 2..3}
ZeroCopyCycles == 0..3
Kept(elems) == SelectSeq(elems, LAMBDA e : e[2] > 0)
GroupSource(elems, angle) == IF angle THEN AngleSource(elems) ELSE ElementsText(elems)

\* _parse_mini(GroupSource(elems, angle)).query((c, c + 1)); ref is the same
\* query of the source written without its "v!0" elements
EvalZeroCopies(elems, angle, c) ==
    /\ q.kind = "idle"
    /\ \E pr \in {parse_mini(GroupSource(elems, angle))} :
       \E kept \in {parse_mini(GroupSource(Kept(elems), angle))} :
          q' = QCall("zerocopies", GroupSource(elems, angle), elems, c,
                     NumInt(IF angle THEN 1 ELSE 0),
                     Arc(FracInt(c), FracInt(c + 1)), pr.st,
                     IF pr.st = "ok"
                     THEN Query(pr.pats[1], Arc(FracInt(c), FracInt(c + 1)))
                     ELSE <<>>,
                     Query(kept.pats[1], Arc(FracInt(c), FracInt(c + 1))))
    /\ UNCHANGED <<pat, ppq, out, hist, sys>>

ZeroFactors == {NumInt(0), NumFloat(0, 1), NumFrac(<<0, 1>>)}
ZeroFactorSources == {<<"3", "*", "0">>, <<"3", "/", "0">>, <<"0", " ", "3", "/", "0">>}
ZeroFactorArcs == {Arc(FracInt(c), FracInt(c + 1)) : c \in 0..1} \cup {Arc(Frac(1, 4), Frac(5, 2))}

\* Pattern0357.fast(f).query(arc) or Pattern0357.slow(f).query(arc) for a
\* zero factor f; c is 0 for fast and 1 for slow
EvalZeroFactor(useSlow, f, arc) ==
    /\ q.kind = "idle"
    /\ \E r \in {IF useSlow THEN slow(Pattern0357, f) ELSE fast(Pattern0357, f)} :
          q' = QCall("zerofactor", <<>>, <<>>, IF useSlow THEN 1 ELSE 0, f, arc,
                     IF IsRaised(r) THEN "ZeroDivisionError" ELSE "ok",
                     IF IsRaised(r) THEN <<>> ELSE Query(r, arc),
                     <<>>)
    /\ UNCHANGED <<pat, ppq, out, hist, sys>>

\* _parse_mini(src).query(arc) for a source with `*0` or `/0`
EvalZeroModifier(src, arc) ==
    /\ q.kind = "idle"
    /\ \E pr \in {parse_mini(src)} :
          q' = QCall("zerofactor", src, <<>>, 2, NumInt(0), arc, pr.st,
                     IF pr.st = "ok" THEN Query(pr.pats[1], arc) ELSE <<>>,
                     <<>>)
    /\ UNCHANGED <<pat, ppq, out, hist, sys>>

MaxDegree == 14
Degrees == (-MaxDegree)..MaxDegree
ScaleRoots == {48, 60, 72}
NameMajor == <<"m", "a", "j", "o", "r">>

\* _scale_degree_to_midi(d, scales[name], root); ref is the resolution of
\* degree d + N, N the number of intervals of the scale
EvalDegree(name, root, d) ==
    /\ q.kind = "idle"
    /\ \E iv \in {ScalesGet(name)} :
          q' = QCall("degree", name, iv, d, NumInt(root),
                     Arc(FracInt(0), FracInt(1)), "ok",
                     <<scale_degree_to_midi(d, iv, root)>>,
                     <<scale_degree_to_midi(d + Len(iv), iv, root)>>)
    /\ UNCHANGED <<pat, ppq, out, hist, sys>>

MidiNotes == 0..127

\* _quantize_to_scale(p, scales[name], root)
EvalQuantize(name, root, p) ==
    /\ q.kind = "idle"
    /\ \E iv \in {ScalesGet(name)} :
          q' = QCall("quantize", name, iv, p, NumInt(root),
                     Arc(FracInt(0), FracInt(1)), "ok",
                     <<quantize_to_scale(p, iv, root)>>, <<>>)
    /\ UNCHANGED <<pat, ppq, out, hist, sys>>

\* the elements x of "x!n": a number, a bracketed group, an alternation
BangElements ==
    {<<"0">>, <<"[", "0", " ", "1", "]">>, <<"<", "0", " ", "1", ">">>}
BangTails == {<<>>, <<" ", "3">>}

\* n copies of x, separated by spaces
RECURSIVE Copies(_, _)
Copies(x, n) == IF n = 1 THEN x ELSE x \o <<" ">> \o Copies(x, n - 1)

\* _parse_mini(x!n tail).query(arc); ref is the answer of the source with n
\* adjacent copies of x written out
EvalBang(x, n, tail, arc) ==
    /\ q.kind = "idle"
    /\ \E pr \in {parse_mini(x \o <<"!", DigitChars[n + 1]>> \o tail)} :
       \E copies \in {parse_mini(Copies(x, n) \o tail)} :
          q' = QCall("bang", x \o <<"!", DigitChars[n + 1]>> \o tail, x, n, NumInt(n), arc, pr.st,
                     IF pr.st = "ok" THEN Query(pr.pats[1], arc) ELSE <<>>,
                     Query(copies.pats[1], arc))
    /\ UNCHANGED <<pat, ppq, out, hist, sys>>

\* the weights written after `@`; an element of weight 1 is written bare
Weights == {-1, 0, 1, 2}
WeightInputs == UNION {[1..n -> Weights] : n \in 2..3}
WeightValues == <<0, 3, 5>>
WeightedArcs ==
    {Arc(FracInt(c), FracInt(c + 1)) : c \in (-1)..1}
        \cup {Arc(Frac(1, 4), Frac(5, 2)), Arc(Frac(1, 2), Frac(1, 1))}

IntText(n) == IF n < 0 THEN <<"-", DigitChars[1 - n]>> ELSE <<DigitChars[n + 1]>>

\* "v1@w1 v2@w2 ...", the values taken from WeightValues in order
RECURSIVE WeightedText(_, _)
WeightedText(ws, i) ==
    IF i > Len(ws) THEN <<>>
    ELSE (IF i > 1 THEN <<" ">> ELSE <<>>)
         \o <<DigitChars[WeightValues[i] + 1]>>
         \o (IF ws[i] # 1 THEN <<"@">> \o IntText(ws[i]) ELSE <<>>)
         \o WeightedText(ws, i + 1)

\* _parse_mini(WeightedText(ws, 1)).query(arc)
EvalWeighted(ws, arc) ==
    /\ q.kind = "idle"
    /\ \E pr \in {parse_mini(WeightedText(ws, 1))} :
          q' = QCall("weighted", WeightedText(ws, 1), ws, 0, NumInt(0), arc, pr.st,
                     IF pr.st = "ok" THEN Query(pr.pats[1], arc) ELSE <<>>,
                     <<>>)
    /\ UNCHANGED <<pat, ppq, out, hist, sys>>

\* sources that nest the combinators the parser builds: groups, `*`, `/`,
\* `!`, `@`, alternation, a stack, a rest and a negative factor
SrcNested == <<"0", " ", "[", "1", " ", "2", "]", "*", "2">>
SrcSlowAngle == <<"<", "0", " ", "1", ">", "/", "2", " ", "3", "@", "2">>
SrcBangStack == <<"0", "!", "2", " ", "[", "3", ",", "5", "]">>
SrcBackwards == <<"0", "*", "-", "2", " ", "3">>
SrcSlowGroup == <<"[", "0", " ", "3", "]", "/", "3", " ", "~">>
SrcBangAngle == <<"<", "0", " ", "[", "1", " ", "2", "]", ">", "!", "2", " ", "5">>
EventSources == {SrcNested, SrcSlowAngle, SrcBangStack, SrcBackwards, SrcSlowGroup, SrcBangAngle}

\* _parse_mini(src).query(arc)
EvalEvents(src, arc) ==
    /\ q.kind = "idle"
    /\ \E pr \in {parse_mini(src)} :
          q' = QCall("events", src, <<>>, 0, NumInt(0), arc, pr.st,
                     IF pr.st = "ok" THEN Query(pr.pats[1], arc) ELSE <<>>,
                     <<>>)
    /\ UNCHANGED <<pat, ppq, out, hist, sys>>

\* the call has returned; the next one may be made
QReturn ==
    /\ q.kind # "idle"
    /\ q' = QIdle
    /\ UNCHANGED <<pat, ppq, out, hist, sys>>

QNext ==
    \/ \E elems \in AngleInputs, c \in Cycles : EvalAngle(elems, c)
    \/ \E vals \in SeqInputs, arc \in QueryArcs : EvalSequence(vals, arc)
    \/ \E src \in RoundTripSources, f \in Factors, arc \in QueryArcs : EvalFastSlow(src, f, arc)
    \/ \E src \in RepeatSources, n \in RepeatCounts, arc \in CycleArcs : EvalRepeat(src, n, arc)
    \/ \E src \in MalformedSources \cup UnclosedSources \cup StrayBracketSources :
          EvalParse(src)
    \/ \E elems \in ZeroCopyInputs, angle \in BOOLEAN, c \in ZeroCopyCycles :
          EvalZeroCopies(elems, angle, c)
    \/ \E useSlow \in BOOLEAN, f \in ZeroFactors, arc \in ZeroFactorArcs :
          EvalZeroFactor(useSlow, f, arc)
    \/ \E src \in ZeroFactorSources, arc \in ZeroFactorArcs : EvalZeroModifier(src, arc)
    \/ \E s \in scales, root \in ScaleRoots, d \in Degrees : EvalDegree(s.name, root, d)
    \/ \E s \in scales, root \in ScaleRoots, p \in MidiNotes : EvalQuantize(s.name, root, p)
    \/ \E x \in BangElements, n \in 1..MaxCopies, tail \in BangTails, arc \in CycleArcs :
          EvalBang(x, n, tail, arc)
    \/ \E ws \in WeightInputs, arc \in WeightedArcs : EvalWeighted(ws, arc)
    \/ \E src \in EventSources, arc \in QueryArcs : EvalEvents(src, arc)
    \/ QReturn

QuerySpec == QInit /\ [][QNext]_vars

(***************************************************************************)
(* ChainSpec: chains are created by MIDI.n and note(), scales are added to *)
(* the registry, and update() is called once per tick.  sys.last records   *)
(* the last call: its name, the parts its scale string was joined from     *)
(* with ':', and the names its error message lists.                        *)
(***************************************************************************)
\* at most MaxChains chains are created, and update() is called MaxUpdates times
MaxChains == 1
MaxUpdates == 3

SrcChord == <<"0", " ", "[", "2", ",", "4", "]">>
SrcNoteDegree == <<"e", "4", " ", "-", "1">>
ChainSources == {SrcChord, SrcNoteDegree}

NameMinor == <<"m", "i", "n", "o", "r">>
NameBogus == <<"b", "o", "g", "u", "s">>
NameWhole == <<"w", "h", "o", "l", "e">>

\* scale strings, as the parts that ':' joins: those of registered scales,
\* and those MIDI.n rejects ("c:whole" until the scale is added)
ScaleInputs ==
    {<<<<"c">>, NameMajor>>, <<<<"c", "3">>, NameMajor>>, <<<<"a", "4">>, NameMinor>>,
     <<<<"C">>, <<"M", "a", "j", "o", "r">>>>}
BadScaleInputs ==
    {<<<<"c">>, NameWhole>>, <<<<"c">>, NameBogus>>, <<<<"c">> \o NameMajor>>,
     <<<<"c">>, NameMajor, <<"x">>>>, <<<<"h">>, NameMajor>>}

RECURSIVE StrJoin(_, _)
StrJoin(parts, sep) ==
    IF Len(parts) = 1 THEN parts[1]
    ELSE parts[1] \o <<sep>> \o StrJoin(Tail(parts), sep)

VoiceNotes == {60, 64}
CycleLengths == {1, 2}

Call(op, parts, available) == [op |-> op, parts |-> parts, available |-> available]

ChainInit ==
    /\ pat = Pattern(silence)
    /\ ppq = 4
    /\ out = Out("init", <<0, 1>>, FALSE, <<>>, NoLocals)
    /\ hist = NoHist
    /\ q = QIdle
    /\ sys = SysInit

\* the chain MIDI.n sets up from the parsed scale r and the parsed pattern
MidiChain(voice, scale, r, query_fn, c, mute, current_tick) ==
    [PatternChain(Some(voice), mute) EXCEPT
        !.pattern = Some(start(Pattern(query_fn), Some(current_tick))),
        !.cycle_beats = FracInt(c),
        !.parent_voice = Some(voice),
        !.scale = IF IsNone(r) THEN None ELSE Some(Get(r).intervals),
        !.scale_root = IF IsNone(r) THEN None ELSE Some(Get(r).root_midi),
        !.root = IF IsNone(r) THEN voice.note ELSE Get(r).root_midi,
        !.scale_arg = scale]

\* the globals once a new chain object is registered to the bus of that
\* name (if any), started and registered for the update loop
Created(w, chain, bus_name, parent, cycle_beats, root, now) ==
    LET chain_id == Len(w.chains) + 1
        buses == IF IsNone(bus_name) THEN w.buses
                 ELSE [bus(w.buses, Get(bus_name)) EXCEPT ![Get(bus_name)] = bus_register(@, chain_id, now)]
        bound == IF IsNone(bus_name) THEN chain
                 ELSE [chain EXCEPT !.bus_name = bus_name,
                                    !.bus_voice_id = Some(<<now, buses[Get(bus_name)].voice_counter>>)]
    IN  register_chain([w EXCEPT !.chains = Append(@, bound), !.buses = buses],
                       parent, chain_id, cycle_beats, root)

\* ts.MIDI(incomingVoice).n(pattern_str, c = c, scale = scale, mute = mute)
MidiN(voice, pattern_str, c, scale, mute) ==
    /\ \E r \in {IF IsNone(scale) THEN None ELSE Some(parse_scale(sys.scales, StrJoin(Get(scale), ":")))} :
        IF ~IsNone(r) /\ Get(r).st # "ok"
        THEN sys' = [sys EXCEPT !.raised = Get(r).st,
                                !.last = Call("midi_n", scale, Get(r).available)]
        ELSE /\ Len(sys.chains) < MaxChains
             /\ \E pr \in {parse_mini(pattern_str)} :
                 IF pr.st # "ok"
                 THEN sys' = [sys EXCEPT !.raised = pr.st, !.last = Call("midi_n", scale, {})]
                 ELSE \E chain \in {MidiChain(voice, scale, r, pr.pats[1], c, mute, sys.internal_tick)} :
                      sys' = [Created(sys, chain, None, Some(voice), FracInt(c), chain.root, 0)
                              EXCEPT !.raised = "none", !.last = Call("midi_n", scale, {})]
    /\ UNCHANGED <<pat, ppq, out, hist, q>>

\* ts.note(pattern_str, c = c, root = root, parent = parent, mute = mute,
\* bus_name = bus_name) while time.time() is now
CreateNote(pattern_str, c, root, parent, mute, bus_name, now) ==
    /\ \E pr \in {parse_mini(pattern_str)} :
        IF pr.st # "ok"
        THEN sys' = [sys EXCEPT !.raised = pr.st, !.last = Call("note", None, {})]
        ELSE \E chain \in {[PatternChain(None, mute) EXCEPT
                               !.pattern = Some(start(Pattern(pr.pats[1]), Some(sys.internal_tick))),
                               !.root = root, !.cycle_beats = FracInt(c),
                               !.parent_voice = parent]} :
             sys' = [Created(sys, chain, bus_name, parent, FracInt(c), root, now)
                     EXCEPT !.raised = "none", !.last = Call("note", None, {})]
    /\ UNCHANGED <<pat, ppq, out, hist, q>>

\* ts.scales.add(name, value)
ScalesAdd(name, value) ==
    /\ sys' = [sys EXCEPT !.scales = RegistryAdd(sys.scales, name, value),
                          !.raised = "none", !.last = Call("add", None, {})]
    /\ UNCHANGED <<pat, ppq, out, hist, q>>

\* the chain ids of the registry, in insertion order
RegistryKeys(w) == [i \in 1..Len(w.registry) |-> w.registry[i].chain_id]

\* ts.update(): the pending triggers are fired, the chains are ticked, the
\* tick counter advances unless a chain raised
Update ==
    /\ \E w \in {update_pattern_chains([base_update(sys) EXCEPT !.ticked = <<>>, !.raised = "none"],
                                        RegistryKeys(sys), 1, sys.internal_tick, ppq)} :
        sys' = [w EXCEPT !.last = Call("update", None, {}),
                         !.internal_tick = IF w.raised = "none" THEN @ + 1 ELSE @]
    /\ UNCHANGED <<pat, ppq, out, hist, q>>

ChainNext ==
    \/ /\ Len(sys.chains) < MaxChains
       /\ \E n \in VoiceNotes, src \in ChainSources,
             scale \in {None} \cup {Some(s) : s \in ScaleInputs} :
               MidiN(Voice(n), src, 1, scale, FALSE)
    \/ \E s \in BadScaleInputs : MidiN(Voice(60), SrcChord, 1, Some(s), FALSE)
    \/ /\ Len(sys.chains) < MaxChains
       /\ \E src \in ChainSources, c \in CycleLengths, mute \in BOOLEAN,
             parent \in {None, Some(Voice(60))} :
               CreateNote(src, c, 60, parent, mute, None, 0)
    \/ ScalesAdd(NameWhole, <<0, 2, 4, 6, 8, 10>>)
    \/ /\ sys.internal_tick < MaxUpdates
       /\ Update

ChainSpec == ChainInit /\ [][ChainNext]_vars

(***************************************************************************)
(* ScaleSpec: the calls of one voice handler that differ in their scale    *)
(* string only, with ts.scales.add and update() in between.                *)
(***************************************************************************)
ScaleNext ==
    \/ /\ Len(sys.chains) < MaxChains
       /\ \E scale \in {None} \cup {Some(s) : s \in ScaleInputs} :
               MidiN(Voice(60), SrcChord, 1, scale, FALSE)
    \/ \E s \in BadScaleInputs : MidiN(Voice(60), SrcChord, 1, Some(s), FALSE)
    \/ ScalesAdd(NameWhole, <<0, 2, 4, 6, 8, 10>>)
    \/ /\ sys.internal_tick < MaxUpdates
       /\ Update

ScaleSpec == ChainInit /\ [][ScaleNext]_vars

(***************************************************************************)
(* BusSpec: a script that uses the buses directly.  It sets a bus up with  *)
(* its own history_limit or takes the default, registers chain objects     *)
(* and releases voice ids at release ticks of its choice.  The k-th chain  *)
(* object the script registers to a bus is k.                              *)
(***************************************************************************)
MaxVoices == 3
BusNames == {"melody"}
HistoryLimits == {1, 2}
ReleaseTicks == {1, 2}

\* the readings of time.time(): the wall clock may stand still and may be
\* set back between two calls
ClockReadings == {1, 2}

\* b = ts.bus(name); b.history_limit = limit, on a name not used before
BusConfigure(name, limit) ==
    /\ name \notin DOMAIN sys.buses
    /\ sys' = [sys EXCEPT !.buses = [bus(@, name) EXCEPT ![name].history_limit = limit],
                          !.last = Call("configure", Some(<<name, limit>>), {})]
    /\ UNCHANGED <<pat, ppq, out, hist, q>>

\* ts.bus(name).register(chain) while time.time() is now
BusRegister(name, now) ==
    /\ sys' = [sys EXCEPT !.buses = [bus(@, name) EXCEPT
                                        ![name] = bus_register(@, bus(sys.buses, name)[name].voice_counter + 1, now)],
                          !.last = Call("register", Some(<<name>>), {})]
    /\ UNCHANGED <<pat, ppq, out, hist, q>>

\* ts.bus(name).release(voice_id, release_tick)
BusRelease(name, voice_id, release_tick) ==
    /\ sys' = [sys EXCEPT !.buses = [bus(@, name) EXCEPT
                                        ![name] = bus_release(@, voice_id, release_tick)],
                          !.last = Call("release", Some(<<name, voice_id, release_tick>>), {})]
    /\ UNCHANGED <<pat, ppq, out, hist, q>>

BusNext ==
    \/ \E name \in BusNames, limit \in HistoryLimits : BusConfigure(name, limit)
    \/ \E name \in BusNames :
          /\ bus(sys.buses, name)[name].voice_counter < MaxVoices
          /\ \E now \in ClockReadings : BusRegister(name, now)
    \/ \E name \in BusNames, now \in ClockReadings, k \in 1..MaxVoices, release_tick \in ReleaseTicks :
          BusRelease(name, <<now, k>>, release_tick)

BusSpec == ChainInit /\ [][BusNext]_vars

(***************************************************************************)
(* LifeSpec: chains made by ts.note with a parent voice, a mute flag and   *)
(* a bus; updaters that stop another chain; chain.stop(); the release of   *)
(* a parent voice; Note.trigger; update().                                 *)
(***************************************************************************)
MaxLive == 2
MaxPending == 2

\* chain._register({}, updater), the updater calling target.stop()
RegisterUpdater(chain_id, target) ==
    /\ sys' = [sys EXCEPT !.chains[chain_id].updaters = Append(@, target),
                          !.last = Call("register_updater", Some(<<chain_id, target>>), {})]
    /\ UNCHANGED <<pat, ppq, out, hist, q>>

\* chain.stop()
ChainStop(chain_id) ==
    /\ sys' = [chain_stop(sys, chain_id) EXCEPT !.last = Call("stop", None, {})]
    /\ UNCHANGED <<pat, ppq, out, hist, q>>

\* ts.stop_patterns_for_voice(parent_voice) while vfx.context.ticks is
\* release_tick
StopPatternsForVoice(parent_voice, release_tick) ==
    /\ sys' = [stop_patterns_for_voice(sys, parent_voice, release_tick)
               EXCEPT !.last = Call("stop_voice", Some(<<parent_voice, release_tick>>), {})]
    /\ UNCHANGED <<pat, ppq, out, hist, q>>

\* ts.Note(m = m, l = l).trigger()
NoteTrigger(m, l) ==
    /\ sys' = [sys EXCEPT !.trigger_queue = Append(@, [TriggerState(m, l, None) EXCEPT
                                                          !.serial = sys.queued + 1]),
                          !.queued = @ + 1,
                          !.last = Call("trigger", None, {})]
    /\ UNCHANGED <<pat, ppq, out, hist, q>>

\* the values of vfx.context.ticks at the release of a voice
ContextTicks == {7}

\* the ts.note calls of the script: <<parent note, mute, bus_name>>
LifeCalls ==
    {<<60, FALSE, Some("melody")>>, <<64, TRUE, Some("melody")>>, <<60, TRUE, None>>}

\* the script has made that call
Called(call) ==
    \E c \in 1..Len(sys.chains) :
        /\ sys.chains[c].parent_voice = Some(Voice(call[1]))
        /\ sys.chains[c].mute = call[2]
        /\ sys.chains[c].bus_name = call[3]

\* the script makes each of its ts.note calls once, at a time of its choice
LifeNext ==
    \/ \E call \in LifeCalls :
          /\ ~Called(call)
          /\ CreateNote(SrcChord, 1, 60, Some(Voice(call[1])), call[2], call[3], 0)
    \/ \E chain_id \in 1..Len(sys.chains) : ChainStop(chain_id)
    \/ \E n \in VoiceNotes, release_tick \in ContextTicks : StopPatternsForVoice(Voice(n), release_tick)
    \/ /\ sys.internal_tick < MaxUpdates
       /\ Update

LifeSpec == ChainInit /\ [][LifeNext]_vars

(***************************************************************************)
(* TriggerSpec: Note.trigger calls of the script between the updates of    *)
(* chains that queue triggers of their own, made by ts.note and MIDI.n at  *)
(* any time between the updates.                                           *)
(***************************************************************************)
TriggerNext ==
    \/ /\ Len(sys.chains) < MaxLive
       /\ CreateNote(SrcChord, 1, 60, Some(Voice(60)), FALSE, None, 0)
    \/ MidiN(Voice(64), SrcChord, 1, None, FALSE)
    \/ /\ Len(sys.trigger_queue) < MaxPending
       /\ NoteTrigger(72, FracInt(1))
    \/ /\ sys.internal_tick < MaxUpdates
       /\ Update

TriggerSpec == ChainInit /\ [][TriggerNext]_vars

(***************************************************************************)
(* KnobSpec: one chain whose cycle parameter is a control the user turns   *)
(* between the updates.                                                    *)
(***************************************************************************)
MaxKnobUpdates == 6
KnobSources == {SrcChord, Src0357}

\* the control given as c now reads c: what _resolve_dynamic returns for
\* the chain's cycle_beats_raw from now on
TurnKnob(chain_id, c) ==
    /\ sys' = [sys EXCEPT !.registry = [i \in 1..Len(@) |->
                                           IF @[i].chain_id = chain_id
                                           THEN [@[i] EXCEPT !.cycle_beats = FracInt(c)] ELSE @[i]],
                          !.last = Call("knob", None, {})]
    /\ UNCHANGED <<pat, ppq, out, hist, q>>

KnobNext ==
    \/ /\ Len(sys.chains) < MaxChains
       /\ \E src \in KnobSources : CreateNote(src, 1, 60, Some(Voice(60)), FALSE, None, 0)
    \/ \E chain_id \in 1..Len(sys.chains), c \in CycleLengths :
          /\ Registered(sys, chain_id)
          /\ RegistryEntry(sys, chain_id).cycle_beats # FracInt(c)
          /\ TurnKnob(chain_id, c)
    \/ /\ sys.internal_tick < MaxKnobUpdates
       /\ Update

KnobSpec == ChainInit /\ [][KnobNext]_vars

(***************************************************************************)
(* CallbackSpec: up to MaxLive + 1 chains whose updater stops another      *)
(* chain.                                                                  *)
(***************************************************************************)
CallbackNext ==
    \/ /\ Len(sys.chains) <= MaxLive
       /\ \E bus_name \in {None, Some("melody")} :
               CreateNote(SrcChord, 1, 60, Some(Voice(60)), FALSE, bus_name, 0)
    \/ \E chain_id \in 1..Len(sys.chains), target \in 1..Len(sys.chains) :
          /\ chain_id # target
          /\ Len(sys.chains[chain_id].updaters) = 0
          /\ RegisterUpdater(chain_id, target)
    \/ /\ sys.internal_tick < MaxUpdates
       /\ Update

CallbackSpec == ChainInit /\ [][CallbackNext]_vars

\* the elements of <...> after each x!n is expanded into n copies
RECURSIVE Expand(_)
Expand(elems) ==
    IF Len(elems) = 0 THEN <<>>
    ELSE Replicate(elems[1][1], elems[1][2]) \o Expand(Tail(elems))

AngleExampleDegrees == <<0, 0, 3, 5, 7>>

\* C7: inside <...>, with each x!n expanded into n copies, the k resulting
\* elements alternate one per cycle: the query of cycle c returns exactly one
\* event, the one of element c mod k, with whole [c, c+1); <0!2 3 5 7> gives
\* 0,0,3,5,7 on cycles 0..4 and repeats from cycle 5.
C7_AngleAlternates ==
    q.kind = "angle" =>
        /\ q.st = "ok"
        /\ Len(q.res) = 1
        /\ EventEq(q.res[1],
                   Event(IntVal(Expand(q.elems)[(q.c % Len(Expand(q.elems))) + 1]),
                         Some(Arc(FracInt(q.c), FracInt(q.c + 1))),
                         Arc(FracInt(q.c), FracInt(q.c + 1))))
        /\ (q.elems = AngleExample =>
                q.res[1].value = IntVal(AngleExampleDegrees[(q.c % 5) + 1]))

\* "<0!2 3 5 7>" queried on cycle 6, where the second copy of 0 answers again
C7_Witness ==
    /\ q.kind = "angle"
    /\ q.src = <<"<", "0", "!", "2", " ", "3", " ", "5", " ", "7", ">">>
    /\ q.c = 6
    /\ Len(q.res) = 1
    /\ q.res[1].value = IntVal(0)
    /\ ~IsNone(q.res[1].whole)
    /\ ArcEq(Get(q.res[1].whole), Arc(FracInt(6), FracInt(7)))

\* slot i (from 0) of cycle c in a sequence of n children
Slot(c, i, n) == Arc(Frac(c * n + i, n), Frac(c * n + i + 1, n))

\* the (cycle, child) pairs whose slot intersects the arc
TouchedSlots(n, arc) ==
    {x \in ((FInt(arc[1]) - 1)..(FInt(arc[2]) + 1)) \X (0..(n - 1)) :
        FLt(FMax(arc[1], Slot(x[1], x[2], n)[1]), FMin(arc[2], Slot(x[1], x[2], n)[2]))}

\* the event of child x[2] in cycle x[1]: its whole is the slot, its part the
\* piece of the slot inside the arc
SlotEvent(vals, arc, x) ==
    Event(IntVal(vals[x[2] + 1]),
          Some(Slot(x[1], x[2], Len(vals))),
          Arc(FMax(arc[1], Slot(x[1], x[2], Len(vals))[1]),
              FMin(arc[2], Slot(x[1], x[2], Len(vals))[2])))

\* C9: sequence(p1..pn) queried over an arc, several cycles long or not,
\* returns for every touched cycle c and every child i whose slot
\* [c + i/n, c + (i+1)/n) intersects the arc that child's event remapped
\* into the slot, and nothing else.
C9_SequenceOverCycles ==
    q.kind = "sequence" =>
        /\ Len(q.res) = Cardinality(TouchedSlots(Len(q.elems), q.arc))
        /\ \A x \in TouchedSlots(Len(q.elems), q.arc) :
              \E j \in 1..Len(q.res) : EventEq(q.res[j], SlotEvent(q.elems, q.arc, x))
        /\ \A j \in 1..Len(q.res) :
              \E x \in TouchedSlots(Len(q.elems), q.arc) :
                  EventEq(q.res[j], SlotEvent(q.elems, q.arc, x))

\* sequence(a, b) over [0, 2): a at [0, 1/2) and [1, 3/2), b at [1/2, 1) and
\* [3/2, 2), in the order the code appends them (child by child)
C9_Witness ==
    /\ q.kind = "sequence"
    /\ q.elems = <<1, 2>>
    /\ ArcEq(q.arc, Arc(FracInt(0), FracInt(2)))
    /\ Len(q.res) = 4
    /\ EventEq(q.res[1], Event(IntVal(1), Some(Arc(Frac(0, 1), Frac(1, 2))), Arc(Frac(0, 1), Frac(1, 2))))
    /\ EventEq(q.res[2], Event(IntVal(1), Some(Arc(Frac(1, 1), Frac(3, 2))), Arc(Frac(1, 1), Frac(3, 2))))
    /\ EventEq(q.res[3], Event(IntVal(2), Some(Arc(Frac(1, 2), Frac(1, 1))), Arc(Frac(1, 2), Frac(1, 1))))
    /\ EventEq(q.res[4], Event(IntVal(2), Some(Arc(Frac(3, 2), Frac(2, 1))), Arc(Frac(3, 2), Frac(2, 1))))

SameEventSet(a, b) ==
    /\ \A i \in 1..Len(a) : \E j \in 1..Len(b) : EventEq(a[i], b[j])
    /\ \A j \in 1..Len(b) : \E i \in 1..Len(a) : EventEq(a[i], b[j])

\* C10: for every factor f # 0, every pattern p and every query arc,
\* p.fast(f).slow(f) returns the same set of events as p.
C10_FastSlowRoundTrip ==
    (q.kind = "fastslow" /\ q.num[2] # 0) =>
        (q.st = "ok" /\ SameEventSet(q.res, q.ref))

SameEvents(a, b) ==
    Len(a) = Len(b) /\ \A i \in 1..Len(a) : EventEq(a[i], b[i])

\* C11: for n >= 2, repeatCycles(n) of a pattern P queried inside cycle c
\* returns P's events of source cycle floor(c / n) shifted forward into
\* cycle c, so each source cycle is heard n times before the next one.
C11_RepeatCyclesSourceCycle ==
    q.kind = "repeat" => SameEvents(q.res, q.ref)

\* C12: parsing a string that contains a character outside the grammar, an
\* unmatched closing bracket, or tokens left unconsumed raises a syntax
\* error; such input is never turned into a pattern.
C12_MalformedInputRaises ==
    (q.kind = "parse" /\ q.src \in MalformedSources) => q.st = "SyntaxError"

\* C13: an element with replicate count 0 takes no share of time wherever
\* it occurs: in a sequence and inside <...> alike the pattern answers as the
\* one written without that element.
C13_ZeroCopiesTakeNoTime ==
    q.kind = "zerocopies" => (q.st = "ok" /\ SameEvents(q.res, q.ref))

\* C14: fast(0) and slow(0) each return a pattern that yields no events for
\* every arc, and neither raises; parsing and querying `x*0` and `x/0`
\* raises nothing.
C14_ZeroFactorNeverRaises ==
    q.kind = "zerofactor" => (q.st = "ok" /\ q.res = <<>>)

\* the octave of degree d in a scale of n intervals: the k with
\* k * n <= d < (k + 1) * n
DegreeOctave(d, n) ==
    CHOOSE k \in (-(MaxDegree + 2))..(MaxDegree + 2) : k * n <= d /\ d < (k + 1) * n

\* degree d resolves to root + intervals[d mod N] + 12 * floor(d / N), and
\* degree d + N resolves exactly 12 above degree d
DegreeFormula ==
    q.kind = "degree" =>
        /\ q.res[1] = q.num[2] + q.elems[q.c - DegreeOctave(q.c, Len(q.elems)) * Len(q.elems) + 1]
                        + 12 * DegreeOctave(q.c, Len(q.elems))
        /\ q.ref[1] = q.res[1] + 12

\* the resolution of degree d in c5:major (root 72)
InC5Major(d) == q.kind = "degree" /\ q.src = NameMajor /\ q.num[2] = 72 /\ q.c = d

\* C15 as stated: the degree formula, and in c5:major degree 7 is 84 and
\* degree -1 is 83.
C15_DegreeResolutionAsStated ==
    /\ DegreeFormula
    /\ InC5Major(7) => q.res[1] = 84
    /\ InC5Major(-1) => q.res[1] = 83

\* C15: for every integer degree d, negative included, and every scale with
\* N intervals, degree resolution returns root + intervals[d mod N] +
\* 12 * floor(d / N); degree d + N resolves exactly 12 above degree d; in
\* c5:major degree 7 is 84 and degree -1 is 71.
C15_DegreeResolution ==
    /\ DegreeFormula
    /\ InC5Major(7) => q.res[1] = 84
    /\ InC5Major(-1) => q.res[1] = 71

\* degree -1 of c5:major: the B below the root
C15_Witness == InC5Major(-1) /\ q.res = <<71>> /\ q.ref = <<83>>

\* the pitches root + interval + 12k that lie in 0..127
ScalePitches(scale_intervals, scale_root) ==
    {n \in 0..127 : \E i \in 1..Len(scale_intervals) :
        (n - scale_root - scale_intervals[i]) % 12 = 0}

\* C16: for every absolute pitch p in 0..127, every registered scale and
\* every root, quantization returns a pitch of {root + interval + 12k}
\* within 0..127 such that no other pitch of that set is strictly nearer.
C16_QuantizeNearest ==
    q.kind = "quantize" =>
        /\ q.res[1] \in ScalePitches(q.elems, q.num[2])
        /\ \A n \in ScalePitches(q.elems, q.num[2]) :
              Abs(n - q.c) >= Abs(q.res[1] - q.c)

(***************************************************************************)
(* C17: a MIDI.n call whose scale string names a scale that is not in the  *)
(* registry raises an error whose message lists the names of the registry, *)
(* and one whose string has not exactly one ':' raises too; either call    *)
(* leaves the chain registry and the scales registry as they were.         *)
(***************************************************************************)
BadScaleParts(parts, data) == Len(parts) # 2 \/ ~RegistryHas(data, parts[2])

C17_BadScaleStringFails ==
    [][(sys'.last.op = "midi_n" /\ ~IsNone(sys'.last.parts)
          /\ BadScaleParts(Get(sys'.last.parts), sys.scales))
       => /\ sys'.raised = "ValueError"
          /\ sys'.registry = sys.registry
          /\ sys'.scales = sys.scales
          /\ sys'.trigger_queue = sys.trigger_queue
          /\ (Len(Get(sys'.last.parts)) = 2 => sys'.last.available = RegistryList(sys.scales))]_vars

C17_Witness ==
    /\ sys.last.op = "midi_n"
    /\ sys.raised = "ValueError"
    /\ sys.last.parts = Some(<<<<"c">>, NameBogus>>)
    /\ NameWhole \in sys.last.available
    /\ Len(sys.registry) = 1


(***************************************************************************)
(* C18: in a chain made by MIDI.n with a scale whose root is written       *)
(* without an octave, degree 0 resolves to the pitch of the scale nearest  *)
(* to the incoming voice's note.                                           *)
(***************************************************************************)
ImplicitRoot(chain) ==
    /\ ~IsNone(chain.midi)
    /\ ~IsNone(chain.scale_arg)
    /\ Len(NoteOctaveStr(Get(chain.scale_arg)[1])) = 0

C18_ImplicitRootFollowsVoice ==
    \A k \in 1..Len(sys.registry) :
        LET chain == sys.chains[sys.registry[k].chain_id]
        IN  (ImplicitRoot(chain) /\ chain.state.onset) =>
                \A i \in 1..Len(chain.state.n) :
                    chain.state.n[i] = IntVal(0) =>
                        /\ chain.state.notes[i] \in ScalePitches(Get(chain.scale), Get(chain.scale_root))
                        /\ \A p \in ScalePitches(Get(chain.scale), Get(chain.scale_root)) :
                              Abs(p - Get(chain.midi).note) >= Abs(chain.state.notes[i] - Get(chain.midi).note)

(***************************************************************************)
(* C19: a chain made with the scale string "c:major" has scale root 60,    *)
(* and one made with "c3:major" has scale root 48.                         *)
(***************************************************************************)
C19_DefaultOctaveFour ==
    \A k \in 1..Len(sys.registry) :
        LET chain == sys.chains[sys.registry[k].chain_id]
        IN  /\ chain.scale_arg = Some(<<<<"c">>, NameMajor>>) => chain.scale_root = Some(60)
            /\ chain.scale_arg = Some(<<<<"c", "3">>, NameMajor>>) => chain.scale_root = Some(48)

(***************************************************************************)
(* C20: after an update, the trigger queue holds, for every running,       *)
(* unmuted chain whose onset flag is set, one trigger per resolved pitch,  *)
(* with that pitch and its duration, whether the chain has a parent voice  *)
(* or not.                                                                 *)
(***************************************************************************)
PitchAndDuration(t) == <<t.m, t.note_length>>

ChainPairs(chain) ==
    IF chain.running /\ ~chain.mute /\ chain.state.onset
    THEN [i \in 1..Len(chain.state.notes) |->
            <<chain.state.notes[i], Get(chain.state.durations)[i]>>]
    ELSE <<>>

RECURSIVE ExpectedPairs(_, _)
ExpectedPairs(w, k) ==
    IF k > Len(w.registry) THEN <<>>
    ELSE ChainPairs(w.chains[w.registry[k].chain_id]) \o ExpectedPairs(w, k + 1)

C20_OneTriggerPerPitch ==
    sys.last.op = "update" =>
        [i \in 1..Len(sys.trigger_queue) |-> PitchAndDuration(sys.trigger_queue[i])]
            = ExpectedPairs(sys, 1)


(***************************************************************************)
(* C29: a tick never lowers the phase, and a tick whose counter is not     *)
(* above the last processed one leaves the phase and the last processed    *)
(* tick as they were.                                                      *)
(***************************************************************************)
C29_PhaseNeverDecreases ==
    [][out'.op = "tick" =>
         /\ FGe(pat'.phase, pat.phase)
         /\ (~IsNone(pat.last_tick) /\ out'.locals.ticks_elapsed <= 0) =>
                (pat'.phase = pat.phase /\ pat'.last_tick = pat.last_tick)]_vars

\* a running pattern that has advanced was ticked with a lower counter
C29_Witness ==
    /\ out.op = "tick"
    /\ pat.running
    /\ ~out.raised
    /\ out.locals.ticks_elapsed < 0
    /\ FGt(pat.phase, Frac(0, 1))


(***************************************************************************)
(* C30: in an ordinary sequence, "x!n" with n >= 1 gives for every arc the *)
(* events of n adjacent copies of x, whether x is a number, a bracketed    *)
(* group or an alternation.                                                *)
(***************************************************************************)
C30_BangIsAdjacentCopies ==
    q.kind = "bang" => (q.st = "ok" /\ SameEventSet(q.res, q.ref))


(***************************************************************************)
(* C23: the chains released from a bus at the same release tick are in     *)
(* one history batch, whatever was released in between, and last(0) is     *)
(* the batch the most recent release put its chain in.                     *)
(***************************************************************************)
C23_OneBatchPerReleaseTick ==
    [][(sys'.last.op = "release"
          /\ BusHas(bus(sys.buses, Get(sys'.last.parts)[1])[Get(sys'.last.parts)[1]],
                    Get(sys'.last.parts)[2]))
       => LET name == Get(sys'.last.parts)[1]
              history == sys'.buses[name].history
              released == bus_last(sys'.buses[name], 0)
          IN  /\ \A i, j \in 1..Len(history) :
                    history[i].release_tick = history[j].release_tick => i = j
              /\ \E k \in 1..Len(released) : released[k] = Get(sys'.last.parts)[2][2]]_vars

(***************************************************************************)
(* C24: a release leaves at most history_limit batches in the history of   *)
(* its bus; the batches it keeps are the newest ones, in their order, and  *)
(* the ones it drops are the oldest.                                       *)
(***************************************************************************)
C24_HistoryBounded ==
    [][sys'.last.op = "release" =>
          LET name == Get(sys'.last.parts)[1]
              old == bus(sys.buses, name)[name].history
              new == sys'.buses[name].history
              limit == sys'.buses[name].history_limit
              kept == SubSeq(new, 2, Len(new))
          IN  /\ Len(new) <= limit
              /\ \/ new = old
                 \/ /\ Len(new) = Len(old)
                    /\ new[1].release_tick = old[1].release_tick
                    /\ kept = SubSeq(old, 2, Len(old))
                 \/ /\ Len(new) = (IF Len(old) + 1 > limit THEN limit ELSE Len(old) + 1)
                    /\ kept = SubSeq(old, 1, Len(new) - 1)]_vars

C24_Witness ==
    /\ sys.last.op = "release"
    /\ \E name \in DOMAIN sys.buses :
          /\ sys.buses[name].history_limit = 2
          /\ Len(sys.buses[name].history) = 2
          /\ sys.buses[name].voice_counter = 3
          /\ Len(sys.buses[name].active) = 0
          /\ sys.buses[name].history[1].release_tick = 1
          /\ sys.buses[name].history[2].release_tick = 2
          /\ sys.buses[name].history[2].chains = <<2>>

(***************************************************************************)
(* C25: an update() during which an updater stops another registered       *)
(* chain completes without error, does not tick the removed chain after    *)
(* its removal, and ticks every other registered chain exactly once.       *)
(***************************************************************************)
Occurrences(seq, x) == Cardinality({i \in 1..Len(seq) : seq[i] = x})

\* the position of a chain in the registry's key order
KeyIndex(w, chain_id) == CHOOSE i \in 1..Len(w.registry) : w.registry[i].chain_id = chain_id

\* the running registered chains whose updater stops chain_id
Stoppers(w, chain_id) ==
    {c \in 1..Len(w.chains) :
        /\ Registered(w, c) /\ w.chains[c].running
        /\ \E i \in 1..Len(w.chains[c].updaters) : w.chains[c].updaters[i] = chain_id}

C25_CallbackMayStopChains ==
    [][sys'.last.op = "update" =>
          /\ sys'.raised = "none"
          /\ \A c \in 1..Len(sys.chains) :
                (Registered(sys, c) /\ sys.chains[c].running) =>
                    IF Registered(sys', c)
                    THEN Occurrences(sys'.ticked, c) = 1
                    ELSE (\E a \in Stoppers(sys, c) : KeyIndex(sys, a) < KeyIndex(sys, c))
                            => Occurrences(sys'.ticked, c) = 0]_vars

(***************************************************************************)
(* C28: an update() fires the triggers that were pending when it was       *)
(* called, each once and in the order they were queued, and none of them   *)
(* is pending after it; no other call fires a trigger.                     *)
(***************************************************************************)
Serials(triggers) == [i \in 1..Len(triggers) |-> triggers[i].serial]

C28_TriggersFireOnceInOrder ==
    [][IF sys'.last.op = "update"
       THEN /\ Serials(sys'.fired) = Serials(sys.trigger_queue)
            /\ \A i \in 1..Len(sys'.fired) :
                  /\ ~sys'.fired[i].pending
                  /\ sys'.fired[i].m = sys.trigger_queue[i].m
                  /\ sys'.fired[i].note_length = sys.trigger_queue[i].note_length
            /\ \A i \in 1..Len(sys'.trigger_queue) :
                  /\ sys'.trigger_queue[i].serial > sys.queued
                  /\ sys'.trigger_queue[i].pending
       ELSE /\ sys'.fired = sys.fired
            /\ Len(sys'.trigger_queue) >= Len(sys.trigger_queue)
            /\ SubSeq(sys'.trigger_queue, 1, Len(sys.trigger_queue)) = sys.trigger_queue]_vars

C28_Witness ==
    /\ sys.last.op = "update"
    /\ Len(sys.fired) = 2
    /\ sys.fired[1].m = 60 /\ sys.fired[1].serial = 1
    /\ sys.fired[2].m = 72 /\ sys.fired[2].serial = 2
    /\ Len(sys.trigger_queue) = 0

(***************************************************************************)
(* C21: an update queues triggers for the unmuted chains it ticks only,    *)
(* so a muted chain never queues one; and a muted chain ticked together    *)
(* with an unmuted chain of the same pattern position and state record     *)
(* has the same state record afterwards.                                   *)
(***************************************************************************)
RECURSIVE UnmutedNotes(_, _, _)
UnmutedNotes(w, ticked, i) ==
    IF i > Len(ticked) THEN 0
    ELSE (IF ~w.chains[ticked[i]].mute /\ w.chains[ticked[i]].state.onset
          THEN Len(w.chains[ticked[i]].state.notes) ELSE 0)
         + UnmutedNotes(w, ticked, i + 1)

C21_MutedChainsOnlyUpdateState ==
    [][sys'.last.op = "update" =>
          /\ Len(sys'.trigger_queue) = UnmutedNotes(sys', sys'.ticked, 1)
          /\ \A i \in 1..Len(sys'.ticked), j \in 1..Len(sys'.ticked) :
                LET a == sys'.ticked[i]
                    b == sys'.ticked[j]
                IN  (/\ sys.chains[a].mute /\ ~sys.chains[b].mute
                     /\ sys.chains[a].pattern = sys.chains[b].pattern
                     /\ sys.chains[a].state = sys.chains[b].state
                     /\ RegistryEntry(sys, a).cycle_beats = RegistryEntry(sys, b).cycle_beats
                     /\ RegistryEntry(sys, a).root = RegistryEntry(sys, b).root)
                    => sys'.chains[a].state = sys'.chains[b].state]_vars

C21_Witness ==
    /\ sys.last.op = "update"
    /\ sys.ticked = <<1, 2>>
    /\ sys.chains[1].mute /\ ~sys.chains[2].mute
    /\ sys.chains[1].state = sys.chains[2].state
    /\ sys.chains[1].state.onset
    /\ sys.chains[1].state.notes = <<62, 64>>
    /\ sys.chains[1].state.cycle = 0
    /\ Len(sys.trigger_queue) = 2

(***************************************************************************)
(* C22: after a chain was ticked, changed(key) is true exactly when the    *)
(* field's value differs from the one before the tick, and changed() is    *)
(* true exactly when the pattern's tick returned at least one event.       *)
(***************************************************************************)
StateKeys == {"notes", "n", "durations", "step", "phase", "cycle", "onset"}

C22_ChangedComparesWithLastTick ==
    [][sys'.last.op = "update" =>
          \A i \in 1..Len(sys'.ticked) :
              LET c == sys'.ticked[i]
                  t == tick(Get(sys.chains[c].pattern), sys.internal_tick, ppq,
                            ResolveCycleBeats(RegistryEntry(sys, c).cycle_beats))
              IN  /\ \A key \in StateKeys :
                        changed(sys'.chains[c], Some(key))
                            <=> (sys'.chains[c].state[key] # sys.chains[c].state[key])
                  /\ changed(sys'.chains[c], None) <=> (~t.raised /\ Len(t.events) > 0)]_vars

C22_Witness ==
    /\ sys.last.op = "update"
    /\ \E i \in 1..Len(sys.ticked) :
          LET chain == sys.chains[sys.ticked[i]]
          IN  /\ ~changed(chain, None)
              /\ changed(chain, Some("onset"))
              /\ changed(chain, Some("phase"))
              /\ ~changed(chain, Some("notes"))
              /\ ~changed(chain, Some("cycle"))
              /\ chain.state.notes = <<60>>

(***************************************************************************)
(* C26: stop_patterns_for_voice(v) leaves every chain registered with      *)
(* parent v not running and out of the update registry, and a chain of v   *)
(* that was active in a bus is in the newest history batch of that bus,    *)
(* stamped with the release tick, and no longer active; the chains of      *)
(* other parents keep their record, their registration and their place in  *)
(* the active set.                                                         *)
(***************************************************************************)
BusActive(w, chain_id) ==
    /\ ~IsNone(w.chains[chain_id].bus_name)
    /\ Get(w.chains[chain_id].bus_name) \in DOMAIN w.buses
    /\ BusHas(w.buses[Get(w.chains[chain_id].bus_name)], Get(w.chains[chain_id].bus_voice_id))

C26_VoiceReleaseStopsItsChains ==
    [][sys'.last.op = "stop_voice" =>
          LET v == Get(sys'.last.parts)[1]
              release_tick == Get(sys'.last.parts)[2]
          IN  \A c \in 1..Len(sys.chains) :
                IF ~Registered(sys, c) THEN sys'.chains[c] = sys.chains[c]
                ELSE IF RegistryEntry(sys, c).parent_id = Some(v)
                THEN /\ ~sys'.chains[c].running
                     /\ ~Get(sys'.chains[c].pattern).running
                     /\ ~Registered(sys', c)
                     /\ BusActive(sys, c) =>
                           LET b == sys'.buses[Get(sys.chains[c].bus_name)]
                           IN  /\ ~BusActive(sys', c)
                               /\ Len(b.history) > 0
                               /\ b.history[1].release_tick = release_tick
                               /\ \E k \in 1..Len(bus_last(b, 0)) : bus_last(b, 0)[k] = c
                ELSE /\ sys'.chains[c] = sys.chains[c]
                     /\ Registered(sys', c)
                     /\ BusActive(sys', c) <=> BusActive(sys, c)]_vars

C26_Witness ==
    /\ sys.last.op = "stop_voice"
    /\ Get(sys.last.parts)[1] = Voice(60)
    /\ Len(sys.chains) = 2
    /\ sys.chains[1].parent_voice = Some(Voice(60)) /\ ~sys.chains[1].running
    /\ sys.chains[2].parent_voice = Some(Voice(64)) /\ sys.chains[2].running
    /\ Registered(sys, 2) /\ BusActive(sys, 2)
    /\ "melody" \in DOMAIN sys.buses
    /\ bus_last(sys.buses["melody"], 0) = <<1>>
    /\ sys.chains[1].state.onset

(***************************************************************************)
(* C27: a stopped chain is in no update registry and in no active set of   *)
(* a bus, and an update neither ticks it, nor changes its state record,    *)
(* nor queues a trigger for it.                                            *)
(***************************************************************************)
C27_StoppedChainStaysStopped ==
    [][/\ \A c \in 1..Len(sys'.chains) :
             ~sys'.chains[c].running => (~Registered(sys', c) /\ ~BusActive(sys', c))
       /\ sys'.last.op = "update" =>
             /\ \A c \in 1..Len(sys.chains) :
                   ~sys.chains[c].running =>
                       /\ sys'.chains[c] = sys.chains[c]
                       /\ Occurrences(sys'.ticked, c) = 0
             /\ Len(sys'.trigger_queue) = UnmutedNotes(sys', sys'.ticked, 1)]_vars

C27_Witness ==
    /\ sys.last.op = "update"
    /\ Len(sys.chains) = 2
    /\ ~sys.chains[1].running /\ ~sys.chains[1].mute
    /\ sys.chains[1].bus_name = Some("melody")
    /\ sys.chains[1].state.onset
    /\ sys.buses["melody"].history = <<>>
    /\ sys.chains[2].running /\ sys.chains[2].mute
    /\ sys.ticked = <<2>>
    /\ sys.internal_tick = 3

C33_NewestIsLastRegistered ==
    \A name \in DOMAIN sys.buses :
        LET b == sys.buses[name]
        IN  /\ bus_newest(b) = (IF Len(b.active) = 0 THEN None ELSE Some(b.active[Len(b.active)].chain))
            /\ bus_oldest(b) = (IF Len(b.active) = 0 THEN None ELSE Some(b.active[1].chain))
            /\ \A i, j \in 1..Len(b.active) : b.active[i].voice_id = b.active[j].voice_id => i = j

(***************************************************************************)
(* C34: an update ticks the chains in the order of their registration,     *)
(* and every chain that was registered and running before the update and   *)
(* is still running after it was ticked exactly once.                      *)
(***************************************************************************)
C34_TickedInRegistrationOrder ==
    [][sys'.last.op = "update" =>
          /\ \A i, j \in 1..Len(sys'.ticked) :
                i < j => KeyIndex(sys, sys'.ticked[i]) < KeyIndex(sys, sys'.ticked[j])
          /\ \A c \in 1..Len(sys.chains) :
                (Registered(sys, c) /\ sys.chains[c].running /\ sys'.chains[c].running)
                    => Occurrences(sys'.ticked, c) = 1]_vars

(***************************************************************************)
(* C35: the first update after a chain was made by ts.note or MIDI.n       *)
(* ticks it with no elapsed tick: the pattern stays at phase 0 of the      *)
(* tick it was started on and the onset at cycle time 0 is reported, with  *)
(* the root as its note.                                                   *)
(***************************************************************************)
C35_FirstTickAtPhaseZero ==
    [][sys'.last.op = "update" =>
          \A c \in 1..Len(sys.chains) :
              (Registered(sys, c) /\ sys.chains[c].running /\ IsNone(sys.chains[c].prev_state)) =>
                  /\ Get(sys.chains[c].pattern).start_tick = sys.internal_tick
                  /\ Occurrences(sys'.ticked, c) = 1
                  /\ Get(sys'.chains[c].pattern).phase = Frac(0, 1)
                  /\ Get(sys'.chains[c].pattern).last_tick = Some(sys.internal_tick)
                  /\ sys'.chains[c].state.onset
                  /\ sys'.chains[c].state.cycle = 0
                  /\ sys'.chains[c].state.notes = <<sys.chains[c].root>>]_vars

C35_Witness ==
    /\ sys.last.op = "update"
    /\ sys.internal_tick = 3
    /\ sys.ticked = <<1, 2>>
    /\ ~IsNone(sys.chains[1].midi)
    /\ Get(sys.chains[1].pattern).start_tick = 0
    /\ Get(sys.chains[1].pattern).phase = Frac(1, 2)
    /\ Get(sys.chains[2].pattern).start_tick = 2
    /\ Get(sys.chains[2].pattern).phase = Frac(0, 1)
    /\ sys.chains[2].state.onset
    /\ sys.chains[2].state.notes = <<60>>

(***************************************************************************)
(* C38: the update that follows stop_patterns_for_voice(v) fires no        *)
(* trigger whose parent is v.                                              *)
(***************************************************************************)
C38_NoVoiceAfterRelease ==
    [][(sys.last.op = "stop_voice" /\ sys'.last.op = "update") =>
          \A i \in 1..Len(sys'.fired) :
              sys'.fired[i].parent # Some(Get(sys.last.parts)[1])]_vars

(***************************************************************************)
(* C39: after a tick with onset, state['step'] is the index of the onset   *)
(* position that fired among the distinct onset positions of a cycle of    *)
(* the pattern.                                                            *)
(***************************************************************************)
CyclePos(t) == FSub(t, FracInt(Trunc(t[1], t[2])))

OnsetPositions(query_fn) ==
    LET events == Onsets(Query(query_fn, Arc(Frac(0, 1), Frac(1, 1))))
    IN  {CyclePos(Get(events[i].whole)[1]) : i \in 1..Len(events)}

C40_DurationUsesLatchedCycle ==
    [][sys'.last.op = "update" =>
          \A k \in 1..Len(sys'.ticked) :
              LET c == sys'.ticked[k]
                  incoming == ResolveCycleBeats(RegistryEntry(sys, c).cycle_beats)
                  t == tick(Get(sys.chains[c].pattern), sys.internal_tick, ppq, incoming)
                  governing == ActiveCycleBeats(Get(sys.chains[c].pattern).latched_cycle_beats,
                                                NormalizeCycleBeats(incoming))
                  valued == Valued(t.events)
              IN  (sys'.chains[c].state.onset /\ sys'.raised = "none") =>
                      sys'.chains[c].state.durations =
                          Some([i \in 1..Len(valued) |-> EventDuration(valued[i], governing)])]_vars

\* the absolute weights added up: no slot lies further from its cycle
RECURSIVE SumAbs(_)
SumAbs(ws) == IF Len(ws) = 0 THEN 0 ELSE Abs(Head(ws)) + SumAbs(Tail(ws))

\* (w_1 + .. + w_i) / W
CumulativeFraction(ws, i) == Frac(SumSeq(SubSeq(ws, 1, i)), SumSeq(ws))

\* the slot of element i (from 1) in cycle c
WeightedSlot(ws, c, i) ==
    Arc(FAdd(FracInt(c), CumulativeFraction(ws, i - 1)),
        FAdd(FracInt(c), CumulativeFraction(ws, i)))

\* the (cycle, element) pairs whose slot is not empty and intersects the arc
OccupiedSlots(ws, arc) ==
    IF SumSeq(ws) = 0 THEN {}
    ELSE {x \in ((FInt(arc[1]) - SumAbs(ws))..(FInt(arc[2]) + SumAbs(ws))) \X (1..Len(ws)) :
             /\ FLt(WeightedSlot(ws, x[1], x[2])[1], WeightedSlot(ws, x[1], x[2])[2])
             /\ FLt(FMax(arc[1], WeightedSlot(ws, x[1], x[2])[1]),
                    FMin(arc[2], WeightedSlot(ws, x[1], x[2])[2]))}

WeightedSlotEvent(ws, arc, x) ==
    Event(IntVal(WeightValues[x[2]]),
          Some(WeightedSlot(ws, x[1], x[2])),
          Arc(FMax(arc[1], WeightedSlot(ws, x[1], x[2])[1]),
              FMin(arc[2], WeightedSlot(ws, x[1], x[2])[2])))

WeightedAsStated(ws, arc, res) ==
    /\ Len(res) = Cardinality(OccupiedSlots(ws, arc))
    /\ \A x \in OccupiedSlots(ws, arc) :
          \E j \in 1..Len(res) : EventEq(res[j], WeightedSlotEvent(ws, arc, x))
    /\ \A j \in 1..Len(res) :
          \E x \in OccupiedSlots(ws, arc) : EventEq(res[j], WeightedSlotEvent(ws, arc, x))

\* C31: in a weighted sequence element i occupies, in every cycle, exactly
\* the slot between the cumulative weight fractions (w_1+..+w_{i-1})/W and
\* (w_1+..+w_i)/W, an element without `@` counting as weight 1; a
\* zero-weight element produces no event and a total weight of 0 gives
\* silence: the events of a query are those of the slots that meet the arc.
C31_WeightedSlots ==
    q.kind = "weighted" =>
        /\ q.st = "ok"
        /\ WeightedAsStated(q.elems, q.arc, q.res)

\* the same property of the sources whose weights are all >= 0
C31_NonNegativeWeights ==
    (q.kind = "weighted" /\ \A i \in 1..Len(q.elems) : q.elems[i] >= 0) =>
        /\ q.st = "ok"
        /\ WeightedAsStated(q.elems, q.arc, q.res)

\* the calls whose result is the query of a pattern _parse_mini returned
ParserBuilt ==
    \/ q.kind \in {"events", "weighted", "angle", "parse", "zerocopies", "bang"}
    \/ q.kind = "zerofactor" /\ q.c = 2

PartWellFormed(e, arc) ==
    /\ FLt(e.part[1], e.part[2])
    /\ FLe(arc[1], e.part[1])
    /\ FLe(e.part[2], arc[2])
    /\ (~IsNone(e.whole) =>
            /\ FLe(Get(e.whole)[1], e.part[1])
            /\ FLe(e.part[2], Get(e.whole)[2]))

\* C36: every event returned by the query of a parser-built pattern (no
\* degrade) over an arc with start < end has part.start < part.end, has its
\* part inside the query arc and, when it has a whole, inside the whole.
C36_PartsWellFormed ==
    (ParserBuilt /\ FLt(q.arc[1], q.arc[2])) =>
        \A j \in 1..Len(q.res) : PartWellFormed(q.res[j], q.arc)

\* "<0 1>/2 3@2" over [1/4, 1/2): the alternation, slowed to two cycles an
\* element and given the first third of the cycle, answers with the part
\* [1/4, 1/3) cut on both sides out of the whole [0, 2/3); '3' follows
C36_Witness ==
    /\ q.kind = "events"
    /\ q.src = SrcSlowAngle
    /\ ArcEq(q.arc, Arc(Frac(1, 4), Frac(1, 2)))
    /\ Len(q.res) = 2
    /\ q.res[1].value = IntVal(0)
    /\ ArcEq(q.res[1].part, Arc(Frac(1, 4), Frac(1, 3)))
    /\ ~IsNone(q.res[1].whole)
    /\ ArcEq(Get(q.res[1].whole), Arc(Frac(0, 1), Frac(2, 3)))
    /\ q.res[2].value = IntVal(3)
    /\ ArcEq(q.res[2].part, Arc(Frac(1, 3), Frac(1, 2)))

\* C37: _parse_mini terminates, returning a pattern or raising, for every
\* finite input, a ']' inside '<...>' included: no call is left in the loop
\* of the '<' branch that appends elements without consuming a token.
C37_ParseTerminates == q.kind = "parse" => q.st # "hang"

====
